---- MODULE Spec2Model ----
(***************************************************************************)
(* A model of the knowledge-graph tools of src/tools.py:                   *)
(*   - the graph store as the Cypher queries of the module change it,      *)
(*   - calculate_communities (union-find connected components),            *)
(*   - parse_extraction_output (the extraction parser), on character       *)
(*     sequences.                                                          *)
(*   - extract_json and the two calls of the language model,               *)
(*   - the imports of extracted records and of relationship summaries,     *)
(*   - get_community_info and get_summarize_community_prompt,              *)
(*   - the map-reduce answerer around the two prompts of the module,       *)
(*   - clear_all_graph_data and clear_specific_labels.                     *)
(* Spec is the store and the community detector, SpecDetect the same with  *)
(* no driver in the module, SpecParse the parser, SpecLLM the calls of the *)
(* language model, SpecImport the imports, SpecInfo and SpecReport the     *)
(* community records and their prompt, SpecPrompt the prompt alone,        *)
(* SpecAnswer the answerer, SpecClear the two clears.                      *)
(***************************************************************************)
EXTENDS Integers, Sequences, FiniteSets, TLC

(***************************************************************************)
(* Bounds and input domains.                                               *)
(***************************************************************************)
\* Entity names the imports draw from.
Names == {"A", "B", "C"}
\* RELATIONSHIP edges the store may hold.
MaxRels == 2

VARIABLES
    \* ---- module state of tools.py
    UTILS_AVAILABLE,       \* tools.py:21/25
    neo4j_driver,          \* tools.py:8/26: "driver" or "None"
    \* ---- the graph store
    entities,              \* names of the __Entity__ nodes
    rels,                  \* [Names \X Names -> Nat]: RELATIONSHIP edges s -> t
    louvain,               \* partial function: the louvain property of entities
    \* ---- the running call
    pc,                    \* "idle" or the position inside calculate_communities
    call,                  \* the function called last
    driver,                \* tools.py:329/334: the local driver of the running call
    outcome,               \* how the last call ended
    queryLog,              \* queries the last call of calculate_communities executed
    entities_data,         \* tools.py:346, a dict in insertion order
    all_entities,          \* tools.py:347
    community_list,        \* tools.py:385
    community_assignment,  \* tools.py:386
    result,                \* tools.py:408, the returned statistics
    lastRun                \* "none", or whether the graph is the "same" as at the
                           \* last completed run or has "changed" since

storeVars == <<UTILS_AVAILABLE, neo4j_driver, entities, rels, louvain, pc,
               call, driver, outcome, queryLog, entities_data, all_entities,
               community_list, community_assignment, result, lastRun>>



(***************************************************************************)
(* Generic helpers.                                                        *)
(***************************************************************************)
\* Every ordering of the finite set S, as sequences without repetition.
RECURSIVE SeqsOf(_)
SeqsOf(S) ==
    IF S = {} THEN {<<>>}
    ELSE UNION {{<<x>> \o s : s \in SeqsOf(S \ {x})} : x \in S}

Range(s) == {s[i] : i \in 1..Len(s)}

RECURSIVE SumSeq(_)
SumSeq(s) == IF s = <<>> THEN 0 ELSE Head(s) + SumSeq(Tail(s))

\* The empty dict.
EmptyMap == [e \in {} |-> 0]

\* No statistics: the last call was not a completed calculate_communities.
NoResult == [communityCount |-> 0, nodeCount |-> 0, relationshipCount |-> 0,
             largest_community_size |-> 0, smallest_community_size |-> 0,
             communityDistribution |-> EmptyMap]

(***************************************************************************)
(* The driver check every store function starts with.                      *)
(***************************************************************************)
\* The check left out: the call goes on with whatever driver it has.
DriverNeverChecked(d) == FALSE

\* tools.py:331-333: no driver passed and no module-level driver.
DriverUnavailable(d) ==
    d = "None" /\ (~UTILS_AVAILABLE \/ neo4j_driver = "None")

(***************************************************************************)
(* import_nodes_and_relationships and its two queries.                     *)
(***************************************************************************)
\* Entity lists and relationship lists one chunk import is called with.
ChunkEntityLists == {<<>>} \cup {<<[entity_name |-> n]>> : n \in Names}
ChunkRelLists ==
    {<<>>} \cup {<<[source_entity |-> s, target_entity |-> t]>> : s, t \in Names}

RECURSIVE SumOver(_, _)
SumOver(f, S) ==
    IF S = {} THEN 0
    ELSE LET x == CHOOSE y \in S : TRUE IN f[x] + SumOver(f, S \ {x})

\* The number of RELATIONSHIP edges in the store.
RelTotal(r) == SumOver(r, Names \X Names)

\* tools.py:296: UNWIND $data, MERGE (n:__Entity__ {name: row.entity_name}).
import_nodes_query(ents, data) == ents \cup {data[i].entity_name : i \in 1..Len(data)}

\* tools.py:304-305: MERGE both endpoints of every row.
MergeEndpoints(ents, data) ==
    ents \cup {data[i].source_entity : i \in 1..Len(data)}
         \cup {data[i].target_entity : i \in 1..Len(data)}

\* tools.py:306: CREATE one RELATIONSHIP edge per row, source -> target.
RECURSIVE import_relationships_query(_, _)
import_relationships_query(r, data) ==
    IF data = <<>> THEN r
    ELSE LET row == Head(data)
             e == <<row.source_entity, row.target_entity>>
         IN import_relationships_query([r EXCEPT ![e] = @ + 1], Tail(data))

\* tools.py:870-903.
import_nodes_and_relationships(d, ents_in, rels_in) ==
    /\ pc = "idle"
    /\ RelTotal(rels) + Len(rels_in) <= MaxRels
    /\ call' = "import_nodes_and_relationships"
    /\ queryLog' = <<>>
    /\ result' = NoResult
    /\ IF DriverUnavailable(d)
       THEN /\ outcome' = "RuntimeError"
            /\ UNCHANGED <<entities, rels>>
       ELSE /\ outcome' = "returned"
            /\ entities' = IF rels_in # <<>>
                           THEN MergeEndpoints(import_nodes_query(entities, ents_in), rels_in)
                           ELSE import_nodes_query(entities, ents_in)
            /\ rels' = IF rels_in # <<>>
                       THEN import_relationships_query(rels, rels_in)
                       ELSE rels
    /\ lastRun' = IF lastRun = "same" /\ (entities' # entities \/ rels' # rels)
                  THEN "changed" ELSE lastRun
    /\ UNCHANGED <<UTILS_AVAILABLE, neo4j_driver, louvain, pc, driver,
                   entities_data, all_entities, community_list,
                   community_assignment>>

(***************************************************************************)
(* calculate_communities, tools.py:329-422.                                *)
(***************************************************************************)
\* tools.py:341: (e)-[r:RELATIONSHIP]-(connected:__Entity__), direction ignored;
\* a self-loop matches with connected = e.
Connected(r, e) == {n \in Names : r[<<e, n>>] > 0 \/ r[<<n, e>>] > 0}

\* tools.py:339-343: one row per entity, collect(DISTINCT connected.name); the
\* store fixes neither the order of the rows nor the order inside a collected list.
RECURSIVE QueryRows(_, _)
QueryRows(S, r) ==
    IF S = {} THEN {<<>>}
    ELSE UNION {{<<[entity |-> e, connections |-> c]>> \o rest :
                    c \in SeqsOf(Connected(r, e)), rest \in QueryRows(S \ {e}, r)}
                : e \in S}

\* Only the names of the connection lists: all_entities.add(entity) left out.
AllEntitiesMissingIsolated(rows) ==
    UNION {Range(rows[i].connections) : i \in 1..Len(rows)}

\* tools.py:347-354: every entity of the rows and every name in a connection list.
AllEntitiesOf(rows) ==
    {rows[i].entity : i \in 1..Len(rows)}
        \cup UNION {Range(rows[i].connections) : i \in 1..Len(rows)}

\* tools.py:359-364: find with path compression; returns the root and the
\* parent map as the call leaves it.
RECURSIVE find(_, _)
find(parent, x) ==
    LET p1 == IF x \notin DOMAIN parent THEN parent @@ (x :> x) ELSE parent
    IN IF p1[x] # x
       THEN LET r == find(p1, p1[x])
            IN [root |-> r.root, parent |-> [r.parent EXCEPT ![x] = r.root]]
       ELSE [root |-> x, parent |-> p1]

\* The comparison inverted: roots are linked only when already equal.
unionInverted(parent, x, y) ==
    LET fx == find(parent, x)
        fy == find(fx.parent, y)
    IN IF fx.root = fy.root THEN [fy.parent EXCEPT ![fx.root] = fy.root] ELSE fy.parent

\* tools.py:366-369.
union(parent, x, y) ==
    LET fx == find(parent, x)
        fy == find(fx.parent, y)
    IN IF fx.root # fy.root THEN [fy.parent EXCEPT ![fx.root] = fy.root] ELSE fy.parent

\* tools.py:373-374: the inner loop over one entity's connections.
RECURSIVE UnionConnections(_, _, _)
UnionConnections(parent, entity, connections) ==
    IF connections = <<>> THEN parent
    ELSE UnionConnections(union(parent, entity, Head(connections)), entity,
                          Tail(connections))

\* tools.py:372-374: the loop over entities_data.items().
RECURSIVE UnionAll(_, _)
UnionAll(parent, rows) ==
    IF rows = <<>> THEN parent
    ELSE UnionAll(UnionConnections(parent, Head(rows).entity, Head(rows).connections),
                  Tail(rows))

\* tools.py:380-382: communities[root].append(entity); communities is a dict in
\* insertion order, kept as a sequence of [root, members].
AddToCommunity(communities, root, entity) ==
    IF \E i \in 1..Len(communities) : communities[i].root = root
    THEN [i \in 1..Len(communities) |->
            IF communities[i].root = root
            THEN [communities[i] EXCEPT !.members = Append(@, entity)]
            ELSE communities[i]]
    ELSE Append(communities, [root |-> root, members |-> <<entity>>])

\* Grouping by parent[entity] instead of find(entity).
RECURSIVE GroupByParent(_, _, _)
GroupByParent(parent, order, communities) ==
    IF order = <<>> THEN communities
    ELSE LET x == Head(order)
             p == IF x \in DOMAIN parent THEN parent[x] ELSE x
         IN GroupByParent(parent, Tail(order), AddToCommunity(communities, p, x))

\* tools.py:377-382: the loop over all_entities, in the iteration order of the set.
RECURSIVE GroupCommunities(_, _, _)
GroupCommunities(parent, order, communities) ==
    IF order = <<>> THEN communities
    ELSE LET f == find(parent, Head(order))
         IN GroupCommunities(f.parent, Tail(order),
                             AddToCommunity(communities, f.root, Head(order)))

\* One step of a stable sort by descending length: c goes after every member
\* at least as long.
InsertBySize(sorted, c) ==
    LET k == Cardinality({i \in 1..Len(sorted) : Len(sorted[i]) >= Len(c)})
    IN SubSeq(sorted, 1, k) \o <<c>> \o SubSeq(sorted, k + 1, Len(sorted))

RECURSIVE SortBySizeFrom(_, _)
SortBySizeFrom(sorted, rest) ==
    IF rest = <<>> THEN sorted
    ELSE SortBySizeFrom(InsertBySize(sorted, Head(rest)), Tail(rest))

\* The communities left in grouping order.
Unsorted(values) == values

\* tools.py:385: sorted(communities.values(), key=len, reverse=True), stable.
SortedBySizeDesc(values) == SortBySizeFrom(<<>>, values)

CommunityValues(communities) == [i \in 1..Len(communities) |-> communities[i].members]

\* tools.py:388-390: community_assignment[entity] = i, ids from 0.
RECURSIVE AssignIds(_, _, _)
AssignIds(list, i, assignment) ==
    IF i > Len(list) THEN assignment
    ELSE AssignIds(list, i + 1,
                   [e \in Range(list[i]) |-> i - 1] @@ assignment)

\* tools.py:331-334: the driver check; raises before anything else.
CalcBegin(d) ==
    /\ pc = "idle"
    /\ call' = "calculate_communities"
    /\ queryLog' = <<>>
    /\ IF DriverUnavailable(d)
       THEN /\ outcome' = "RuntimeError"
            /\ driver' = "None"
            /\ pc' = "idle"
       ELSE /\ outcome' = "running"
            /\ driver' = IF d = "None" THEN neo4j_driver ELSE d
            /\ pc' = "fetch"
    /\ result' = NoResult
    /\ UNCHANGED <<UTILS_AVAILABLE, neo4j_driver, entities, rels, louvain,
                   entities_data, all_entities, community_list,
                   community_assignment, lastRun>>

\* tools.py:339-354: the read query and the copy of its rows.
CalcFetch ==
    /\ pc = "fetch"
    /\ \E rows \in QueryRows(entities, rels) :
          /\ entities_data' = rows
          /\ all_entities' = AllEntitiesOf(rows)
    /\ queryLog' = Append(queryLog, "read")
    /\ pc' = "components"
    /\ UNCHANGED <<UTILS_AVAILABLE, neo4j_driver, entities, rels, louvain,
                   call, driver, outcome, community_list, community_assignment,
                   result, lastRun>>

\* tools.py:357-390: unions, grouping, sort, ids. The iteration order of the
\* set all_entities is whatever the interpreter's hashing gives.
CalcComponents ==
    /\ pc = "components"
    /\ \E order \in SeqsOf(all_entities) :
          LET parent == UnionAll(EmptyMap, entities_data)
              communities == GroupCommunities(parent, order, <<>>)
              list == SortedBySizeDesc(CommunityValues(communities))
          IN /\ community_list' = list
             /\ community_assignment' = AssignIds(list, 1, EmptyMap)
    /\ pc' = "write"
    /\ UNCHANGED <<UTILS_AVAILABLE, neo4j_driver, entities, rels, louvain,
                   call, driver, outcome, queryLog, entities_data, all_entities,
                   result, lastRun>>

\* A write that sets the id of the entities that have none only.
CalcWriteMissing ==
    /\ pc = "write"
    /\ louvain' = [e \in (DOMAIN louvain) \cup (DOMAIN community_assignment \cap entities) |->
                     IF e \in DOMAIN louvain
                     THEN louvain[e] ELSE community_assignment[e]]
    /\ queryLog' = Append(queryLog, "write")
    /\ pc' = "stats"
    /\ UNCHANGED <<UTILS_AVAILABLE, neo4j_driver, entities, rels, call, driver,
                   outcome, entities_data, all_entities, community_list,
                   community_assignment, result, lastRun>>

\* tools.py:393-400: one batch; MATCH sets the property on the entities found.
CalcWrite ==
    /\ pc = "write"
    /\ louvain' = [e \in (DOMAIN louvain) \cup (DOMAIN community_assignment \cap entities) |->
                     IF e \in DOMAIN community_assignment
                     THEN community_assignment[e] ELSE louvain[e]]
    /\ queryLog' = Append(queryLog, "write")
    /\ pc' = "stats"
    /\ UNCHANGED <<UTILS_AVAILABLE, neo4j_driver, entities, rels, call, driver,
                   outcome, entities_data, all_entities, community_list,
                   community_assignment, result, lastRun>>

\* tools.py:403-406.
CommunitySizes(list) == [i \in 1..Len(list) |-> Len(list[i])]

SizeDistribution(sizes) ==
    [s \in Range(sizes) |-> Cardinality({i \in 1..Len(sizes) : sizes[i] = s})]

RECURSIVE MaxOfSeq(_)
MaxOfSeq(s) ==
    IF Len(s) = 1 THEN s[1]
    ELSE LET m == MaxOfSeq(Tail(s)) IN IF Head(s) >= m THEN Head(s) ELSE m

RECURSIVE MinOfSeq(_)
MinOfSeq(s) ==
    IF Len(s) = 1 THEN s[1]
    ELSE LET m == MinOfSeq(Tail(s)) IN IF Head(s) <= m THEN Head(s) ELSE m

\* The statistics with the lengths of the connection lists summed and not halved.
StatisticsCountingEnds(list, rows, all) ==
    LET sizes == CommunitySizes(list)
    IN [communityCount |-> Len(list),
        communityDistribution |-> SizeDistribution(sizes),
        nodeCount |-> Cardinality(all),
        relationshipCount |->
            SumSeq([i \in 1..Len(rows) |-> Len(rows[i].connections)]),
        largest_community_size |-> IF sizes # <<>> THEN MaxOfSeq(sizes) ELSE 0,
        smallest_community_size |-> IF sizes # <<>> THEN MinOfSeq(sizes) ELSE 0]

\* tools.py:408-415.
Statistics(list, rows, all) ==
    LET sizes == CommunitySizes(list)
    IN [communityCount |-> Len(list),
        communityDistribution |-> SizeDistribution(sizes),
        nodeCount |-> Cardinality(all),
        relationshipCount |->
            SumSeq([i \in 1..Len(rows) |-> Len(rows[i].connections)]) \div 2,
        largest_community_size |-> IF sizes # <<>> THEN MaxOfSeq(sizes) ELSE 0,
        smallest_community_size |-> IF sizes # <<>> THEN MinOfSeq(sizes) ELSE 0]

\* tools.py:403-422: the statistics, and the return.
CalcReturn ==
    /\ pc = "stats"
    /\ result' = Statistics(community_list, entities_data, all_entities)
    /\ outcome' = "returned"
    /\ pc' = "idle"
    /\ lastRun' = "same"
    /\ entities_data' = <<>>
    /\ all_entities' = {}
    /\ community_list' = <<>>
    /\ community_assignment' = EmptyMap
    /\ driver' = "None"
    /\ UNCHANGED <<UTILS_AVAILABLE, neo4j_driver, entities, rels, louvain,
                   call, queryLog>>

Drivers == {"None", "explicit"}

(***************************************************************************)
(* Text: a Python str is a sequence of one-character strings.              *)
(***************************************************************************)
\* str.strip() with no argument removes these (of the characters used here).
Whitespace == {" ", "\t", "\n", "\r"}

Digits == {"0", "1", "2", "3", "4", "5", "6", "7", "8", "9"}

UpperCase == <<"A", "B", "C", "D", "E", "F", "G", "H", "I", "J", "K", "L", "M",
               "N", "O", "P", "Q", "R", "S", "T", "U", "V", "W", "X", "Y", "Z">>

LowerCase == <<"a", "b", "c", "d", "e", "f", "g", "h", "i", "j", "k", "l", "m",
               "n", "o", "p", "q", "r", "s", "t", "u", "v", "w", "x", "y", "z">>

\* str.lower() on one character.
LowerChar(c) ==
    IF \E i \in 1..26 : UpperCase[i] = c
    THEN LowerCase[CHOOSE i \in 1..26 : UpperCase[i] = c]
    ELSE c

\* str.lower().
Lower(s) == [i \in 1..Len(s) |-> LowerChar(s[i])]

\* s[i:].startswith(sub), i from 1.
StartsWithAt(s, sub, i) ==
    /\ i + Len(sub) - 1 <= Len(s)
    /\ \A k \in 1..Len(sub) : s[i + k - 1] = sub[k]

\* sub in s.
Contains(s, sub) == \E i \in 1..(Len(s) + 1) : StartsWithAt(s, sub, i)

\* str.strip(chars): leading and trailing characters of the set removed.
StripChars(s, chars) ==
    IF \A i \in 1..Len(s) : s[i] \in chars THEN <<>>
    ELSE LET first == CHOOSE i \in 1..Len(s) :
                         s[i] \notin chars /\ \A j \in 1..(i - 1) : s[j] \in chars
             last == CHOOSE i \in 1..Len(s) :
                         s[i] \notin chars /\ \A j \in (i + 1)..Len(s) : s[j] \in chars
         IN SubSeq(s, first, last)

\* str.strip().
Strip(s) == StripChars(s, Whitespace)

\* Whether and where sep next occurs in s at or after position i.
OccursFrom(s, sep, i) == \E j \in i..Len(s) : StartsWithAt(s, sep, j)

NextAt(s, sep, i) ==
    CHOOSE j \in i..Len(s) :
        StartsWithAt(s, sep, j) /\ \A k \in i..(j - 1) : ~StartsWithAt(s, sep, k)

\* str.split(sep) for a non-empty sep: left to right, occurrences not overlapping.
RECURSIVE SplitFrom(_, _, _)
SplitFrom(s, sep, i) ==
    IF ~OccursFrom(s, sep, i) THEN <<SubSeq(s, i, Len(s))>>
    ELSE LET j == NextAt(s, sep, i)
         IN <<SubSeq(s, i, j - 1)>> \o SplitFrom(s, sep, j + Len(sep))

Split(s, sep) == SplitFrom(s, sep, 1)

RECURSIVE Concat(_)
Concat(parts) == IF parts = <<>> THEN <<>> ELSE Head(parts) \o Concat(Tail(parts))

\* str.replace(sub, ""): every occurrence removed, left to right.
RemoveAll(s, sub) == Concat(Split(s, sub))

\* sep.join(parts).
RECURSIVE Join(_, _)
Join(parts, sep) ==
    IF parts = <<>> THEN <<>>
    ELSE IF Len(parts) = 1 THEN parts[1]
    ELSE parts[1] \o sep \o Join(Tail(parts), sep)

(***************************************************************************)
(* float(str) and the strength coercion, tools.py:268-274.                 *)
(* Values are exact decimals; float() agrees with them on literals of a    *)
(* few digits and small exponents, the ones used here.                     *)
(***************************************************************************)
DigitValue(c) ==
    CASE c = "0" -> 0 [] c = "1" -> 1 [] c = "2" -> 2 [] c = "3" -> 3
      [] c = "4" -> 4 [] c = "5" -> 5 [] c = "6" -> 6 [] c = "7" -> 7
      [] c = "8" -> 8 [] c = "9" -> 9

AllDigits(s) == \A i \in 1..Len(s) : s[i] \in Digits

RECURSIVE DigitsValue(_)
DigitsValue(s) ==
    IF s = <<>> THEN 0
    ELSE 10 * DigitsValue(SubSeq(s, 1, Len(s) - 1)) + DigitValue(s[Len(s)])

RECURSIVE Pow10(_)
Pow10(n) == IF n = 0 THEN 1 ELSE 10 * Pow10(n - 1)

Signs == {"+", "-"}

\* The token without its sign.
Unsigned(t) == IF t # <<>> /\ t[1] \in Signs THEN Tail(t) ELSE t

Negative(t) == t # <<>> /\ t[1] = "-"

\* The part before the exponent mark, and the exponent (<<>> when there is no mark).
Mantissa(u) ==
    IF \E i \in 1..Len(u) : u[i] \in {"e", "E"}
    THEN SubSeq(u, 1, (CHOOSE i \in 1..Len(u) :
                          u[i] \in {"e", "E"} /\ \A j \in 1..(i - 1) : u[j] \notin {"e", "E"}) - 1)
    ELSE u

HasExponent(u) == \E i \in 1..Len(u) : u[i] \in {"e", "E"}

Exponent(u) == SubSeq(u, Len(Mantissa(u)) + 2, Len(u))

IntPart(m) ==
    IF \E i \in 1..Len(m) : m[i] = "."
    THEN SubSeq(m, 1, (CHOOSE i \in 1..Len(m) :
                          m[i] = "." /\ \A j \in 1..(i - 1) : m[j] # ".") - 1)
    ELSE m

FracPart(m) == SubSeq(m, Len(IntPart(m)) + 2, Len(m))

\* The names float() takes for infinity and not-a-number.
SpecialFloats == {<<"i", "n", "f">>, <<"n", "a", "n">>,
                  <<"i", "n", "f", "i", "n", "i", "t", "y">>}

IsSpecialFloat(t) == Lower(Unsigned(t)) \in SpecialFloats

\* The float a special name stands for: nan, inf or -inf.
SpecialName(t) ==
    IF Lower(Unsigned(t)) = <<"n", "a", "n">> THEN <<"n", "a", "n">>
    ELSE (IF Negative(t) THEN <<"-">> ELSE <<>>) \o <<"i", "n", "f">>

\* float(t) does not raise ValueError: a decimal literal without digit
\* separators (sign, digits, point, exponent), or inf / infinity / nan.
IsDecimalLiteral(t) ==
    LET u == Unsigned(t)
        m == Mantissa(u)
        x == Exponent(u)
    IN /\ AllDigits(IntPart(m)) /\ AllDigits(FracPart(m))
       /\ Len(IntPart(m)) + Len(FracPart(m)) > 0
       /\ HasExponent(u) => (Unsigned(x) # <<>> /\ AllDigits(Unsigned(x)))

FloatParses(t) == IsSpecialFloat(t) \/ IsDecimalLiteral(t)

\* The value of a decimal literal as num / 10^scale, num not divisible by ten
\* unless scale = 0.
RECURSIVE Reduce(_, _)
Reduce(num, scale) ==
    IF scale > 0 /\ num % 10 = 0 THEN Reduce(num \div 10, scale - 1)
    ELSE [num |-> num, scale |-> scale]

DecimalValue(t) ==
    LET u == Unsigned(t)
        m == Mantissa(u)
        x == Exponent(u)
        digits == DigitsValue(IntPart(m) \o FracPart(m))
        e == IF HasExponent(u)
             THEN (IF Negative(x) THEN -1 ELSE 1) * DigitsValue(Unsigned(x))
             ELSE 0
        shift == Len(FracPart(m)) - e
        mag == IF shift <= 0 THEN [num |-> digits * Pow10(-shift), scale |-> 0]
               ELSE Reduce(digits, shift)
    IN [num |-> (IF Negative(t) THEN -1 ELSE 1) * mag.num, scale |-> mag.scale]

\* A strength value: an int, a float (num / 10^scale, or the special named by
\* text) or the raw str.
IntValue(n) == [kind |-> "int", num |-> n, scale |-> 0, text |-> <<>>]
FloatValue(n, sc) == [kind |-> "float", num |-> n, scale |-> sc, text |-> <<>>]
SpecialValue(t) == [kind |-> "float", num |-> 0, scale |-> 0, text |-> t]
StrValue(t) == [kind |-> "str", num |-> 0, scale |-> 0, text |-> t]

\* The coercion without the collapse of integral floats to int.
CoerceKeepsFloat(t) ==
    IF ~FloatParses(t) THEN StrValue(t)
    ELSE IF IsSpecialFloat(t) THEN SpecialValue(SpecialName(t))
    ELSE FloatValue(DecimalValue(t).num, DecimalValue(t).scale)

\* tools.py:268-274: float(), int() when is_integer(), the token on ValueError.
CoerceStrength(t) ==
    IF ~FloatParses(t) THEN StrValue(t)
    ELSE IF IsSpecialFloat(t) THEN SpecialValue(SpecialName(t))
    ELSE LET v == DecimalValue(t)
         IN IF v.scale = 0 THEN IntValue(v.num) ELSE FloatValue(v.num, v.scale)

(***************************************************************************)
(* parse_extraction_output, tools.py:159-288.                              *)
(***************************************************************************)
CompletionMarker == <<"{", "c", "o", "m", "p", "l", "e", "t", "i", "o", "n", "_", "d", "e", "l", "i", "m", "i", "t", "e", "r", "}">>
RecordPlaceholder == <<"{", "r", "e", "c", "o", "r", "d", "_", "d", "e", "l", "i", "m", "i", "t", "e", "r", "}">>
TuplePlaceholder == <<"{", "t", "u", "p", "l", "e", "_", "d", "e", "l", "i", "m", "i", "t", "e", "r", "}">>

\* A delimiter argument: None, or the str passed.
NoArg == [given |-> FALSE, value |-> <<>>]
Arg(v) == [given |-> TRUE, value |-> v]

\* tools.py:208-211.
CleanOutput(output_str) ==
    Strip(IF Contains(output_str, CompletionMarker)
          THEN RemoveAll(output_str, CompletionMarker)
          ELSE output_str)

\* The pipe looked for before the placeholder.
DetectRecordPipeFirst(text, arg) ==
    IF arg.given THEN arg.value
    ELSE IF Contains(text, <<"|">>) THEN <<"|">>
    ELSE IF Contains(text, RecordPlaceholder) THEN RecordPlaceholder
    ELSE <<"\n">>

\* tools.py:214-221.
DetectRecordDelimiter(text, arg) ==
    IF arg.given THEN arg.value
    ELSE IF Contains(text, RecordPlaceholder) THEN RecordPlaceholder
    ELSE IF Contains(text, <<"|">>) THEN <<"|">>
    ELSE <<"\n">>

\* tools.py:224-230.
DetectTupleDelimiter(text, arg) ==
    IF arg.given THEN arg.value
    ELSE IF Contains(text, TuplePlaceholder) THEN TuplePlaceholder
    ELSE IF Contains(text, <<";">>) THEN <<";">>
    ELSE <<"\t">>

\* tools.py:233.
RawRecords(text, record_delimiter) ==
    LET parts == Split(text, record_delimiter)
    IN [i \in 1..Len(parts) |-> Strip(parts[i])]

\* The parentheses left around the record.
KeepParens(rec) == Strip(rec)

\* tools.py:241-243.
StripParens(rec) ==
    Strip(IF rec # <<>> /\ rec[1] = "(" /\ rec[Len(rec)] = ")"
          THEN SubSeq(rec, 2, Len(rec) - 1)
          ELSE rec)

\* tools.py:246.
Tokens(rec, tuple_delimiter) ==
    LET parts == Split(StripParens(rec), tuple_delimiter)
    IN [i \in 1..Len(parts) |-> Strip(parts[i])]

\* tools.py:251.
RecType(tokens) == Lower(StripChars(tokens[1], {" ", "\"", "'"}))

EntityWord == <<"e", "n", "t", "i", "t", "y">>
RelationshipWord == <<"r", "e", "l", "a", "t", "i", "o", "n", "s", "h", "i", "p">>

\* tools.py:254.
EntityCountOk(tokens) == Len(tokens) = 4

\* tools.py:265.
RelationshipCountOk(tokens) == Len(tokens) = 5

\* tools.py:269: what float(token) raises.
ConversionError(t) == IF FloatParses(t) THEN "none" ELSE "ValueError"

\* The conversion without an except clause around it.
CaughtNothing(e) == e = "none"

\* tools.py:273: except ValueError.
Caught(e) == e \in {"none", "ValueError"}

\* tools.py:264-274: the record makes the loop raise.
RecordRaises(rec, tuple_delimiter) ==
    LET tokens == Tokens(rec, tuple_delimiter)
    IN /\ RecType(tokens) = RelationshipWord
       /\ RelationshipCountOk(tokens)
       /\ ~Caught(ConversionError(tokens[5]))

\* tools.py:253-285: the records one raw record adds to parsed_records.
ParseRecord(rec, tuple_delimiter) ==
    LET tokens == Tokens(rec, tuple_delimiter)
        rec_type == RecType(tokens)
    IN IF rec_type = EntityWord
       THEN IF EntityCountOk(tokens)
            THEN <<[record_type |-> "entity",
                    entity_name |-> tokens[2],
                    entity_type |-> tokens[3],
                    entity_description |-> tokens[4]]>>
            ELSE <<>>
       ELSE IF rec_type = RelationshipWord
       THEN IF RelationshipCountOk(tokens)
            THEN <<[record_type |-> "relationship",
                    source_entity |-> tokens[2],
                    target_entity |-> tokens[3],
                    relationship_description |-> tokens[4],
                    relationship_strength |-> CoerceStrength(tokens[5])]>>
            ELSE <<>>
       ELSE <<>>

\* tools.py:235-285: the loop over raw_records; empty records are skipped.
RECURSIVE ParsedRecords(_, _)
ParsedRecords(raw_records, tuple_delimiter) ==
    IF raw_records = <<>> THEN <<>>
    ELSE (IF Head(raw_records) = <<>> THEN <<>>
          ELSE ParseRecord(Head(raw_records), tuple_delimiter))
         \o ParsedRecords(Tail(raw_records), tuple_delimiter)

\* [el for el in parsed_records if el.get("record_type") == t], tools.py:286-287.
RECURSIVE OfType(_, _)
OfType(records, t) ==
    IF records = <<>> THEN <<>>
    ELSE (IF Head(records).record_type = t THEN <<Head(records)>> ELSE <<>>)
         \o OfType(Tail(records), t)

\* tools.py:207-288. str.split raises ValueError on an empty separator: at
\* tools.py:233 always, at tools.py:246 when a non-empty record is reached;
\* an exception of the conversion that is not caught leaves the function too.
parse_extraction_output(output_str, record_arg, tuple_arg) ==
    LET text == CleanOutput(output_str)
        record_delimiter == DetectRecordDelimiter(text, record_arg)
        tuple_delimiter == DetectTupleDelimiter(text, tuple_arg)
        raw_records == IF record_delimiter = <<>> THEN <<>>
                       ELSE RawRecords(text, record_delimiter)
        raises == \/ record_delimiter = <<>>
                  \/ /\ tuple_delimiter = <<>>
                     /\ \E i \in 1..Len(raw_records) : raw_records[i] # <<>>
                  \/ /\ tuple_delimiter # <<>>
                     /\ \E i \in 1..Len(raw_records) :
                           /\ raw_records[i] # <<>>
                           /\ RecordRaises(raw_records[i], tuple_delimiter)
        parsed_records == IF raises THEN <<>>
                          ELSE ParsedRecords(raw_records, tuple_delimiter)
    IN [outcome |-> IF raises THEN "ValueError" ELSE "returned",
        record_delimiter |-> record_delimiter,
        tuple_delimiter |-> tuple_delimiter,
        nodes |-> OfType(parsed_records, "entity"),
        relationships |-> OfType(parsed_records, "relationship")]

(***************************************************************************)
(* json.loads on a str, as extract_json uses it (tools.py:646-694).        *)
(* A JSON value is [kind, text, items]: kind one of dict, list, str,       *)
(* number, true, false, null, nan, inf; text the characters of a str or of *)
(* a number; items the elements of a list or the [key, value] members of a *)
(* dict. Strings hold no backslash escape here.                            *)
(***************************************************************************)
JsonValue(kind, text, items) == [kind |-> kind, text |-> text, items |-> items]

JsonNull == JsonValue("null", <<>>, <<>>)

JsonFail == [ok |-> FALSE, value |-> JsonNull, next |-> 0]

JsonOk(v, next) == [ok |-> TRUE, value |-> v, next |-> next]

\* The character at i, "" past the end.
At(s, i) == IF i >= 1 /\ i <= Len(s) THEN s[i] ELSE ""

\* The first position at or after i that holds no whitespace.
SkipWs(s, i) ==
    CHOOSE j \in i..(Len(s) + 1) :
        /\ At(s, j) \notin Whitespace
        /\ \A k \in i..(j - 1) : s[k] \in Whitespace

\* The first position at or after i that holds no digit.
SkipDigits(s, i) ==
    CHOOSE j \in i..(Len(s) + 1) :
        /\ At(s, j) \notin Digits
        /\ \A k \in i..(j - 1) : s[k] \in Digits

\* A string literal opening at i: up to the next quote; a control character
\* inside it is an error.
ParseString(s, i) ==
    IF ~\E j \in (i + 1)..Len(s) : s[j] = "\"" THEN JsonFail
    ELSE LET j == CHOOSE j \in (i + 1)..Len(s) :
                      s[j] = "\"" /\ \A k \in (i + 1)..(j - 1) : s[k] # "\""
         IN IF \E k \in (i + 1)..(j - 1) : s[k] \in {"\n", "\t", "\r"} THEN JsonFail
            ELSE JsonOk(JsonValue("str", SubSeq(s, i + 1, j - 1), <<>>), j + 1)

\* A number at i: -?(0|[1-9][0-9]*)(\.[0-9]+)?([eE][-+]?[0-9]+)?
ParseNumber(s, i) ==
    LET d == IF At(s, i) = "-" THEN i + 1 ELSE i
        intEnd == IF At(s, d) = "0" THEN d + 1 ELSE SkipDigits(s, d)
        fracEnd == IF At(s, intEnd) = "." /\ SkipDigits(s, intEnd + 1) > intEnd + 1
                   THEN SkipDigits(s, intEnd + 1) ELSE intEnd
        x == IF At(s, fracEnd + 1) \in Signs THEN fracEnd + 2 ELSE fracEnd + 1
        expEnd == IF At(s, fracEnd) \in {"e", "E"} /\ SkipDigits(s, x) > x
                  THEN SkipDigits(s, x) ELSE fracEnd
    IN IF intEnd = d THEN JsonFail
       ELSE JsonOk(JsonValue("number", SubSeq(s, i, expEnd - 1), <<>>), expEnd)

JsonLiterals ==
    {<<<<"t", "r", "u", "e">>, "true">>, <<<<"f", "a", "l", "s", "e">>, "false">>, <<<<"n", "u", "l", "l">>, "null">>,
     <<<<"N", "a", "N">>, "nan">>, <<<<"I", "n", "f", "i", "n", "i", "t", "y">>, "inf">>, <<<<"-", "I", "n", "f", "i", "n", "i", "t", "y">>, "inf">>}

ParseLiteral(s, i) ==
    IF \E l \in JsonLiterals : StartsWithAt(s, l[1], i)
    THEN LET l == CHOOSE l \in JsonLiterals : StartsWithAt(s, l[1], i)
         IN JsonOk(JsonValue(l[2], IF l[2] = "inf" THEN l[1] ELSE <<>>, <<>>), i + Len(l[1]))
    ELSE JsonFail

RECURSIVE ParseValue(_, _), ParseElements(_, _, _), ParseMembers(_, _, _)

\* The value that starts at i.
ParseValue(s, i) ==
    LET c == At(s, i)
    IN IF c = "\"" THEN ParseString(s, i)
       ELSE IF c = "{"
            THEN IF At(s, SkipWs(s, i + 1)) = "}"
                 THEN JsonOk(JsonValue("dict", <<>>, <<>>), SkipWs(s, i + 1) + 1)
                 ELSE ParseMembers(s, SkipWs(s, i + 1), <<>>)
       ELSE IF c = "["
            THEN IF At(s, SkipWs(s, i + 1)) = "]"
                 THEN JsonOk(JsonValue("list", <<>>, <<>>), SkipWs(s, i + 1) + 1)
                 ELSE ParseElements(s, SkipWs(s, i + 1), <<>>)
       ELSE IF c = "-" /\ ~StartsWithAt(s, <<"-", "I", "n", "f", "i", "n", "i", "t", "y">>, i) THEN ParseNumber(s, i)
       ELSE IF c \in Digits THEN ParseNumber(s, i)
       ELSE ParseLiteral(s, i)

\* The elements of a list from i on, acc the ones read.
ParseElements(s, i, acc) ==
    LET v == ParseValue(s, i)
        j == SkipWs(s, v.next)
    IN IF ~v.ok THEN JsonFail
       ELSE IF At(s, j) = "," THEN ParseElements(s, SkipWs(s, j + 1), Append(acc, v.value))
       ELSE IF At(s, j) = "]" THEN JsonOk(JsonValue("list", <<>>, Append(acc, v.value)), j + 1)
       ELSE JsonFail

\* The members of a dict from i on, acc the ones read.
ParseMembers(s, i, acc) ==
    LET k == ParseString(s, i)
        colon == SkipWs(s, k.next)
        v == ParseValue(s, SkipWs(s, colon + 1))
        j == SkipWs(s, v.next)
        member == [key |-> k.value.text, value |-> v.value]
    IN IF At(s, i) # "\"" \/ ~k.ok THEN JsonFail
       ELSE IF At(s, colon) # ":" THEN JsonFail
       ELSE IF ~v.ok THEN JsonFail
       ELSE IF At(s, j) = "," THEN ParseMembers(s, SkipWs(s, j + 1), Append(acc, member))
       ELSE IF At(s, j) = "}" THEN JsonOk(JsonValue("dict", <<>>, Append(acc, member)), j + 1)
       ELSE JsonFail

\* One value, whitespace around it and nothing else.
JsonDocument(s) ==
    LET v == ParseValue(s, SkipWs(s, 1))
    IN IF v.ok /\ SkipWs(s, v.next) = Len(s) + 1 THEN v ELSE JsonFail

\* json.loads(s); ok FALSE stands for JSONDecodeError. The argument is
\* evaluated once, then read.
JsonLoads(s) == CHOOSE r \in {JsonDocument(str) : str \in {s}} : TRUE

(***************************************************************************)
(* extract_json, tools.py:633-706.                                         *)
(***************************************************************************)
\* The character U+0060, which a string of this language cannot hold.
Backtick == "GRAVE"

FenceJson ==
    <<Backtick, Backtick, Backtick, "j", "s", "o", "n">>

Fence ==
    <<Backtick, Backtick, Backtick>>

FenceClose ==
    <<"\n", Backtick, Backtick, Backtick>>

\* str.removeprefix, str.removesuffix.
RemovePrefix(s, pre) ==
    IF StartsWithAt(s, pre, 1) THEN SubSeq(s, Len(pre) + 1, Len(s)) ELSE s

RemoveSuffix(s, suf) ==
    IF Len(suf) <= Len(s) /\ StartsWithAt(s, suf, Len(s) - Len(suf) + 1)
    THEN SubSeq(s, 1, Len(s) - Len(suf))
    ELSE s

\* tools.py:645.
Cleaned(text) == Strip(RemoveSuffix(RemovePrefix(text, FenceJson), Fence))

\* tools.py:652, re.search with re.DOTALL for a json fence, blanks, a newline,
\* any text and a newline with the closing fence. With the opening fence at a:
\* the newlines the greedy blanks may end on, and for each of them the places
\* the closing fence may start.
FenceNewlines(text, a) ==
    {p \in (a + Len(FenceJson))..(SkipWs(text, a + Len(FenceJson)) - 1) : text[p] = "\n"}

FenceClosings(text, p) == {q \in (p + 1)..Len(text) : StartsWithAt(text, FenceClose, q)}

FenceMatches(text, a) ==
    /\ StartsWithAt(text, FenceJson, a)
    /\ \E p \in FenceNewlines(text, a) : FenceClosings(text, p) # {}

\* group(1) of the leftmost match: the blanks as long as a match allows, the
\* text as short.
FencedBlock(text) ==
    IF ~\E a \in 1..Len(text) : FenceMatches(text, a) THEN [found |-> FALSE, group |-> <<>>]
    ELSE LET a == CHOOSE a \in 1..Len(text) :
                      FenceMatches(text, a) /\ \A b \in 1..(a - 1) : ~FenceMatches(text, b)
             p == CHOOSE p \in FenceNewlines(text, a) :
                      /\ FenceClosings(text, p) # {}
                      /\ \A r \in FenceNewlines(text, a) :
                            FenceClosings(text, r) # {} => r <= p
             q == CHOOSE q \in FenceClosings(text, p) :
                      \A r \in FenceClosings(text, p) : q <= r
         IN [found |-> TRUE, group |-> SubSeq(text, p + 1, q - 1)]

CountIn(s, c, from, to) == Cardinality({k \in from..to : s[k] = c})

\* tools.py:660-673 and 680-693: from the first opening character up to the
\* closing character that brings the count back to zero; the empty str when
\* the count never comes back.
BalancedSpan(text, open, close) ==
    LET start == CHOOSE i \in 1..Len(text) :
                     text[i] = open /\ \A k \in 1..(i - 1) : text[k] # open
        Closes(i) == text[i] = close
                     /\ CountIn(text, open, start, i) = CountIn(text, close, start, i)
    IN IF \E i \in start..Len(text) : Closes(i)
       THEN SubSeq(text, start,
                   CHOOSE i \in start..Len(text) :
                       Closes(i) /\ \A k \in start..(i - 1) : ~Closes(k))
       ELSE <<>>

Has(text, c) == \E i \in 1..Len(text) : text[i] = c

JsonStr(t) == JsonValue("str", t, <<>>)

UnknownCommunity ==
    <<"U", "n", "k", "n", "o", "w", "n", " ", "C", "o", "m", "m", "u", "n", "i", "t",
      "y">>

FailedSummary ==
    <<"F", "a", "i", "l", "e", "d", " ", "t", "o", " ", "p", "a", "r", "s", "e", " ",
      "c", "o", "m", "m", "u", "n", "i", "t", "y", " ", "s", "u", "m", "m", "a",
      "r", "y">>

DefaultExplanation ==
    <<"D", "e", "f", "a", "u", "l", "t", " ", "r", "a", "t", "i", "n", "g", " ", "d",
      "u", "e", " ", "t", "o", " ", "p", "a", "r", "s", "i", "n", "g", " ", "f",
      "a", "i", "l", "u", "r", "e">>

TitleKey ==
    <<"t", "i", "t", "l", "e">>

SummaryKey ==
    <<"s", "u", "m", "m", "a", "r", "y">>

RatingKey ==
    <<"r", "a", "t", "i", "n", "g">>

RatingExplanationKey ==
    <<"r", "a", "t", "i", "n", "g", "_", "e", "x", "p", "l", "a", "n", "a", "t", "i",
      "o", "n">>

FindingsKey ==
    <<"f", "i", "n", "d", "i", "n", "g", "s">>

\* tools.py:700-706.
FallbackReport ==
    JsonValue("dict", <<>>,
        <<[key |-> TitleKey, value |-> JsonStr(UnknownCommunity)],
          [key |-> SummaryKey, value |-> JsonStr(FailedSummary)],
          [key |-> RatingKey, value |-> JsonValue("number", <<"5", ".", "0">>, <<>>)],
          [key |-> RatingExplanationKey, value |-> JsonStr(DefaultExplanation)],
          [key |-> FindingsKey, value |-> JsonValue("list", <<>>, <<>>)]>>)

\* The str each stage hands to json.loads, in order: tools.py:645, 654, 673
\* and 693; tried is FALSE for a stage whose if finds nothing to load
\* (tools.py:653, 661, 681).
Candidates(text) ==
    <<[tried |-> TRUE, str |-> Cleaned(text)],
      [tried |-> FencedBlock(text).found, str |-> Strip(FencedBlock(text).group)],
      [tried |-> Has(text, "{"),
       str |-> IF Has(text, "{") THEN BalancedSpan(text, "{", "}") ELSE <<>>],
      [tried |-> Has(text, "["),
       str |-> IF Has(text, "[") THEN BalancedSpan(text, "[", "]") ELSE <<>>]>>

\* json.loads of every candidate; a JSONDecodeError passes to the next stage
\* (tools.py:647, 655, 675, 695).
Loaded(candidates) ==
    [i \in 1..Len(candidates) |->
        IF candidates[i].tried THEN JsonLoads(candidates[i].str) ELSE JsonFail]

\* The last stage whose json.loads returns, in place of the first.
LastLoaded(loaded) ==
    IF \E i \in 1..Len(loaded) : loaded[i].ok
    THEN LET i == CHOOSE i \in 1..Len(loaded) :
                      loaded[i].ok /\ \A k \in (i + 1)..Len(loaded) : ~loaded[k].ok
         IN [stage |-> i, value |-> loaded[i].value]
    ELSE [stage |-> 5, value |-> FallbackReport]

\* The first stage whose json.loads returns gives the value; tools.py:700-706
\* when none does.
FirstLoaded(loaded) ==
    IF \E i \in 1..Len(loaded) : loaded[i].ok
    THEN LET i == CHOOSE i \in 1..Len(loaded) :
                      loaded[i].ok /\ \A k \in 1..(i - 1) : ~loaded[k].ok
         IN [stage |-> i, value |-> loaded[i].value]
    ELSE [stage |-> 5, value |-> FallbackReport]

\* tools.py:643-706: the value returned and the stage that gave it.
extract_json(text) == FirstLoaded(Loaded(Candidates(text)))

(***************************************************************************)
(* Replies of the language model.                                          *)
(***************************************************************************)
ReportText ==
    <<"{", "\"", "t", "i", "t", "l", "e", "\"", ":", " ", "\"", "T", "\"", ",", " ",
      "\"", "s", "u", "m", "m", "a", "r", "y", "\"", ":", " ", "\"", "S", "\"",
      ",", " ", "\"", "r", "a", "t", "i", "n", "g", "\"", ":", " ", "7", ".", "5",
      ",", " ", "\"", "r", "a", "t", "i", "n", "g", "_", "e", "x", "p", "l", "a",
      "n", "a", "t", "i", "o", "n", "\"", ":", " ", "\"", "E", "\"", ",", " ",
      "\"", "f", "i", "n", "d", "i", "n", "g", "s", "\"", ":", " ", "[", "{", "\"",
      "s", "u", "m", "m", "a", "r", "y", "\"", ":", " ", "\"", "F", "\"", ",", " ",
      "\"", "e", "x", "p", "l", "a", "n", "a", "t", "i", "o", "n", "\"", ":", " ",
      "\"", "X", "\"", "}", "]", "}">>

ReplyBodies ==
    {ReportText,
     <<"{", "\"", "a", "\"", ":", " ", "1", "}">>,
     <<"[", "1", ",", " ", "2", "]">>,
     <<"4", "2">>,
     <<"n", "o", " ", "j", "s", "o", "n", " ", "h", "e", "r", "e">>,
     <<>>,
     <<"{", "\"", "t", "i", "t", "l", "e", "\"", ":", " ", "\"", "T", "\"">>,
     <<"{", "\"", "a", "\"", ":", " ", "\"", "}", "\"", "}">>,
     <<"\"", "h", "i", "\"">>,
     <<"\"", "4", "2", "\"">>,
     <<"n", "u", "l", "l">>}

\* A body as it is, in a json fence on lines of its own, in a fence without
\* line breaks, in a fence with prose around it, and inside prose.
Wrapped(body) ==
    {body,
     FenceJson \o <<"\n">> \o body \o FenceClose,
     FenceJson \o body \o Fence,
     <<"S", "e", "e", ":", "\n">> \o FenceJson \o <<"\n">> \o body \o FenceClose \o <<"\n", "o", "k">>,
     <<"R", "e", "s", "u", "l", "t", ":", " ">> \o body \o <<" ", "e", "n", "d">>}

ReportReplies == UNION {Wrapped(b) : b \in ReplyBodies}

(***************************************************************************)
(* The text handed to the parser: records in the format the extraction     *)
(* prompt asks the LLM for, tools.py:33-46, and departures from it.        *)
(***************************************************************************)
\* Records one output holds.
MaxRecords == 2

Field(t) == [text |-> t, pad |-> FALSE]
Padded(t) == [text |-> t, pad |-> TRUE]

\* str.upper().
UpperChar(c) ==
    IF \E i \in 1..26 : LowerCase[i] = c
    THEN UpperCase[CHOOSE i \in 1..26 : LowerCase[i] = c]
    ELSE c

Upper(s) == [i \in 1..Len(s) |-> UpperChar(s[i])]

\* The first field as written: "word", 'Word' or WORD.
RenderWord(r) ==
    CASE r.style = "dq" -> <<"\"">> \o r.word \o <<"\"">>
      [] r.style = "sq" -> <<"'">> \o Upper(SubSeq(r.word, 1, 1)) \o Tail(r.word) \o <<"'">>
      [] r.style = "bare" -> Upper(r.word)

RenderField(f) == IF f.pad THEN <<" ">> \o f.text \o <<" ">> ELSE f.text

\* One record as written, tools.py:36/44: the fields joined by the tuple
\* delimiter, in parentheses.
Render(r, tuple_delimiter) ==
    LET body == Join(<<RenderWord(r)>> \o [i \in 1..Len(r.fields) |-> RenderField(r.fields[i])],
                     tuple_delimiter)
    IN IF r.word = <<>> THEN <<>>
       ELSE IF r.wrap THEN <<"(">> \o body \o <<")">>
       ELSE body

\* The output: the records joined by the separator, tools.py:46, then the
\* completion marker where the placeholders were left in the prompt, tools.py:48.
Serialize(records, fmt) ==
    Join([i \in 1..Len(records) |-> Render(records[i], fmt.tuple)], fmt.sep)
    \o (IF fmt.marker THEN CompletionMarker ELSE <<>>)

\* Delimiter pairs the output is written with: the unformatted placeholders of
\* the prompt, the defaults of create_extraction_prompt, the fallbacks of the
\* parser, '#' with '|', and two pairs mixing a placeholder with a character
\* the detection looks for.
Formats ==
    {[record |-> RecordPlaceholder, tuple |-> TuplePlaceholder,
      sep |-> <<"\n">> \o RecordPlaceholder \o <<"\n">>, marker |-> TRUE],
     [record |-> <<"|">>, tuple |-> <<";">>, sep |-> <<"\n", "|", "\n">>, marker |-> FALSE],
     [record |-> <<"\n">>, tuple |-> <<"\t">>, sep |-> <<"\n">>, marker |-> FALSE],
     [record |-> <<"#">>, tuple |-> <<"|">>, sep |-> <<"#">>, marker |-> FALSE],
     [record |-> RecordPlaceholder, tuple |-> <<"|">>, sep |-> RecordPlaceholder, marker |-> FALSE],
     [record |-> <<";">>, tuple |-> TuplePlaceholder, sep |-> <<";">>, marker |-> FALSE]}

HashPipe == CHOOSE f \in Formats : f.record = <<"#">>

NameA == <<"A">>
NameB == <<"B">>
NameC == <<"C">>
TypeText == <<"T", "Y", "P", "E">>
DescText == <<"d", "e", "s", "c">>
Desc2Text == <<"d", "e", "s", "c", "2">>
SpacedText == <<"d", " ", "x">>

Rec(word, style, fields) == [word |-> word, style |-> style, fields |-> fields, wrap |-> TRUE]

EntityA == Rec(EntityWord, "dq", <<Field(NameA), Field(TypeText), Field(DescText)>>)
EntityBThree == Rec(EntityWord, "dq", <<Field(NameB), Field(TypeText)>>)
EntityC == Rec(EntityWord, "dq", <<Field(NameC), Field(TypeText), Field(Desc2Text)>>)
EntityBare == [word |-> EntityWord, style |-> "bare", wrap |-> FALSE,
               fields |-> <<Padded(NameB), Padded(TypeText), Padded(SpacedText)>>]
EntityFive == Rec(EntityWord, "sq",
                  <<Field(NameA), Field(TypeText), Field(DescText), Field(Desc2Text)>>)
EntityNoDescription == Rec(EntityWord, "dq", <<Field(NameB), Field(TypeText), Field(<<>>)>>)
RelAB == Rec(RelationshipWord, "dq",
             <<Field(NameA), Field(NameB), Field(DescText), Field(<<"7">>)>>)
RelBC == Rec(RelationshipWord, "dq",
             <<Field(NameB), Field(NameC), Field(SpacedText), Field(<<"2", ".", "5">>)>>)
RelFour == Rec(RelationshipWord, "dq", <<Field(NameA), Field(NameC), Field(DescText)>>)
RelHigh == Rec(RelationshipWord, "sq",
               <<Field(NameC), Field(NameA), Field(Desc2Text), Padded(<<"h", "i", "g", "h">>)>>)
EventA == Rec(<<"e", "v", "e", "n", "t">>, "dq", <<Field(NameA), Field(TypeText), Field(DescText)>>)
EmptyRecord == [word |-> <<>>, style |-> "bare", wrap |-> FALSE, fields |-> <<>>]

RecordPool == {EntityA, EntityBThree, EntityC, EntityBare, EntityFive, EntityNoDescription,
               RelAB, RelBC, RelFour, RelHigh, EventA, EmptyRecord}

\* Strength texts tried in an output of one record.
StrengthTexts ==
    {<<"2", ".", "0">>,
     <<"-", "3">>,
     <<"1", "e", "1">>,
     <<".", "5">>,
     <<"1", ".">>,
     <<"i", "n", "f">>,
     <<"n", "a", "n">>,
     <<>>,
     <<"2", ",", "5">>,
     <<"+", "4">>,
     <<"-", "0", ".", "0">>,
     <<"0", "x", "1", "0">>,
     <<"1", "e", "-", "1">>,
     <<"-", "I", "n", "f", "i", "n", "i", "t", "y">>}

StrengthProbe(t) ==
    Rec(RelationshipWord, "dq", <<Field(NameA), Field(NameB), Field(DescText), Field(t)>>)

\* The example "("entity"|A|TYPE|desc)#("entity"|B|TYPE)#("entity"|C|TYPE|desc2)".
ExampleRecords == <<EntityA, EntityBThree, EntityC>>

VARIABLES
    ppc,           \* "off", "llm" while the output is written, "parsed"
    format,        \* the delimiters the output is written with
    llm_records,   \* the records written so far
    output_str,    \* tools.py:159, the text passed to the parser
    record_arg,    \* tools.py:159, the record_delimiter argument
    tuple_arg,     \* tools.py:159, the tuple_delimiter argument
    parsed         \* outcome, the delimiters used, and the two lists returned

parseVars == <<ppc, format, llm_records, output_str, record_arg, tuple_arg, parsed>>

NotParsed == [outcome |-> "none", record_delimiter |-> <<>>, tuple_delimiter |-> <<>>,
              nodes |-> <<>>, relationships |-> <<>>]

\* The LLM writes one more record.
EmitRecord(r) ==
    /\ ppc = "llm"
    /\ Len(llm_records) < MaxRecords
    /\ \A i \in 1..Len(llm_records) : llm_records[i] \in RecordPool
    /\ llm_records' = Append(llm_records, r)
    /\ output_str' = Serialize(llm_records', format)
    /\ UNCHANGED <<ppc, format, record_arg, tuple_arg, parsed>>

\* The LLM writes the three records of the example.
EmitExample ==
    /\ ppc = "llm"
    /\ llm_records = <<>>
    /\ format = HashPipe
    /\ llm_records' = ExampleRecords
    /\ output_str' = Serialize(llm_records', format)
    /\ UNCHANGED <<ppc, format, record_arg, tuple_arg, parsed>>

\* parse_extraction_output(output_str, record_delimiter, tuple_delimiter).
Parse(ra, ta) ==
    /\ ppc = "llm"
    /\ ppc' = "parsed"
    /\ record_arg' = ra
    /\ tuple_arg' = ta
    /\ parsed' = parse_extraction_output(output_str, ra, ta)
    /\ UNCHANGED <<format, llm_records, output_str>>

(***************************************************************************)
(* The functions that call the language model, tools.py:789-867 and        *)
(* tools.py:1277-1330. chat_bedrock is the environment: it answers with a  *)
(* str or raises. The functions keep no state from one call to the next,   *)
(* so a behaviour holds one call, made in any state of the module flags.   *)
(***************************************************************************)
VARIABLES
    STRANDS_AVAILABLE,  \* tools.py:16: "True", "False", or "undefined" when the
                        \* import of utils_strand failed (tools.py:23-26)
    llm_call,           \* the function called, "none" before the call
    llm_text,           \* tools.py:633, the argument of extract_json in that call
    response,           \* what chat_bedrock did in that call
    llm_outcome,        \* "returned" or the exception that left the call
    json_value,         \* the value extract_json or the report generator returned
    extraction          \* the lists extract_entities_with_llm returned

llmVars == <<STRANDS_AVAILABLE, llm_call, llm_text, response, llm_outcome, json_value,
             extraction>>

NoResponse == [called |-> FALSE, raised |-> FALSE, text |-> <<>>]
Replies(t) == [called |-> TRUE, raised |-> FALSE, text |-> t]
BackendRaises == [called |-> TRUE, raised |-> TRUE, text |-> <<>>]

NoExtraction == [nodes |-> <<>>, relationships |-> <<>>]

\* The delimiters create_extraction_prompt formats the prompt with, tools.py:143.
DefaultFormat == CHOOSE f \in Formats : f.record = <<"|">>

\* Replies to the extraction prompt: no record, records in the format asked
\* for, and prose.
ExtractionReplies ==
    {Serialize(<<>>, DefaultFormat),
     Serialize(<<EntityA>>, DefaultFormat),
     Serialize(<<EntityA, RelAB>>, DefaultFormat),
     <<"n", "o", " ", "j", "s", "o", "n", " ", "h", "e", "r", "e">>}

Backends(texts) == {BackendRaises} \cup {Replies(t) : t \in texts}

EmptyDict == JsonValue("dict", <<>>, <<>>)

\* extract_json(text) on a str, tools.py:633-706.
CallExtractJson(t) ==
    /\ llm_call = "none"
    /\ llm_call' = "extract_json"
    /\ llm_text' = t
    /\ response' = NoResponse
    /\ llm_outcome' = "returned"
    /\ json_value' = extract_json(t).value
    /\ extraction' = NoExtraction
    /\ UNCHANGED STRANDS_AVAILABLE

\* tools.py:861-862: json.loads applied to what extract_json returned. json.loads
\* takes a str (or bytes); any other value raises TypeError.
LoadsOfExtracted(v) ==
    IF v.kind # "str" THEN [outcome |-> "TypeError", value |-> JsonNull]
    ELSE LET r == JsonLoads(v.text)
         IN IF r.ok THEN [outcome |-> "returned", value |-> r.value]
            ELSE [outcome |-> "JSONDecodeError", value |-> JsonNull]

\* tools.py:829-867. The exception raised inside the try block, whichever it
\* is, ends in return {} (tools.py:864-867).
generate_community_report_with_llm(backend) ==
    /\ llm_call = "none"
    /\ llm_call' = "generate_community_report_with_llm"
    /\ extraction' = NoExtraction
    /\ llm_text' = IF UTILS_AVAILABLE /\ STRANDS_AVAILABLE = "True" /\ ~backend.raised
               THEN backend.text ELSE <<>>
    /\ IF ~UTILS_AVAILABLE
       THEN /\ llm_outcome' = "RuntimeError"
            /\ response' = NoResponse
            /\ json_value' = JsonNull
       ELSE /\ llm_outcome' = "returned"
            /\ IF STRANDS_AVAILABLE # "True"
               THEN /\ response' = NoResponse
                    /\ json_value' = EmptyDict
               ELSE /\ response' = backend
                    /\ IF backend.raised
                       THEN json_value' = EmptyDict
                       ELSE \E json_str \in {extract_json(backend.text).value} :
                               \E r \in {LoadsOfExtracted(json_str)} :
                                  json_value' = IF r.outcome = "returned" THEN r.value
                                                ELSE EmptyDict
    /\ UNCHANGED STRANDS_AVAILABLE

\* The exceptions the handler at tools.py:823 catches: every Exception.
Swallowed(e) == TRUE

\* tools.py:789-826; parse_extraction_output is called with its default
\* delimiters (tools.py:820).
extract_entities_with_llm(backend) ==
    /\ llm_call = "none"
    /\ llm_call' = "extract_entities_with_llm"
    /\ llm_text' = <<>>
    /\ json_value' = JsonNull
    /\ IF ~UTILS_AVAILABLE
       THEN /\ llm_outcome' = "RuntimeError"
            /\ response' = NoResponse
            /\ extraction' = NoExtraction
       ELSE IF STRANDS_AVAILABLE # "True"
       THEN /\ response' = NoResponse
            /\ llm_outcome' = IF Swallowed("RuntimeError") THEN "returned" ELSE "RuntimeError"
            /\ extraction' = NoExtraction
       ELSE /\ response' = backend
            /\ IF backend.raised
               THEN /\ llm_outcome' = IF Swallowed("Exception") THEN "returned" ELSE "Exception"
                    /\ extraction' = NoExtraction
               ELSE LET r == parse_extraction_output(backend.text, NoArg, NoArg)
                    IN IF r.outcome = "returned"
                       THEN /\ llm_outcome' = "returned"
                            /\ extraction' = [nodes |-> r.nodes,
                                              relationships |-> r.relationships]
                       ELSE /\ llm_outcome' = IF Swallowed(r.outcome) THEN "returned"
                                              ELSE r.outcome
                            /\ extraction' = NoExtraction
    /\ UNCHANGED STRANDS_AVAILABLE

\* Books process_book_chunks is called with: lists of chunks.
ChunkedBooks == {<<>>, <<<<"c1">>>>, <<<<"c1", "c2">>>>, <<<<"c1">>, <<"c2">>>>}

\* tools.py:1291-1330. The name tqdm of tools.py:1304 is bound nowhere in the
\* module (tools.py:1-26), so evaluating the loop header raises NameError
\* before the first chunk is reached; the store is not touched.
process_book_chunks(chunked_books, number_of_books) ==
    /\ llm_call = "none"
    /\ llm_call' = "process_book_chunks"
    /\ llm_text' = <<>>
    /\ response' = NoResponse
    /\ json_value' = JsonNull
    /\ extraction' = NoExtraction
    /\ llm_outcome' = IF ~UTILS_AVAILABLE \/ neo4j_driver = "None"
                      THEN "RuntimeError" ELSE "NameError"
    /\ UNCHANGED STRANDS_AVAILABLE

LLMOff ==
    /\ STRANDS_AVAILABLE = IF UTILS_AVAILABLE THEN "True" ELSE "undefined"
    /\ llm_call = "none"
    /\ llm_text = <<>>
    /\ response = NoResponse
    /\ llm_outcome = "none"
    /\ json_value = JsonNull
    /\ extraction = NoExtraction

(***************************************************************************)
(* The store in detail: the entity nodes with their labels and description *)
(* lists, the RELATIONSHIP edges and the SUMMARIZED_RELATIONSHIP edges, as *)
(* import_nodes_query, import_relationships_query (tools.py:290-307) and   *)
(* import_rels_summary (tools.py:754-774) write them.                      *)
(***************************************************************************)
\* Calls of import_nodes_and_relationships in one behaviour.
MaxImports == 2
\* Calls of import_rels_summary in one behaviour.
MaxSummaryCalls == 2

VARIABLES
    chunks,          \* the __Chunk__ nodes: [book, id, text]
    entity_nodes,    \* the __Entity__ nodes in creation order
    edges,           \* the RELATIONSHIP edges in creation order, s -> t
    summarized,      \* the SUMMARIZED_RELATIONSHIP edges in creation order
    import_call,     \* the function called last
    import_outcome,  \* how that call ended
    mentions,        \* history: every entity row handed to import_nodes_query
    rel_rows,        \* history: the relationship rows handed to
                     \* import_relationships_query, counted
    summarized_before,  \* history: the SUMMARIZED_RELATIONSHIP edges the store
                     \* held when the last call of import_rels_summary began
    imports,         \* calls of import_nodes_and_relationships so far
    summary_calls    \* calls of import_rels_summary so far

importVars == <<chunks, entity_nodes, edges, summarized, import_call, import_outcome,
                mentions, rel_rows, summarized_before, imports, summary_calls>>

NameAl == <<"A", "l">>
NameAL == <<"A", "L">>
Desc1 == <<"d", "1">>
Rel1 == <<"r", "1">>
Rel2 == <<"r", "2">>

EntityRec(name, description) ==
    Rec(EntityWord, "dq", <<Field(name), Field(TypeText), Field(description)>>)

RelRec(source, target, description) ==
    Rec(RelationshipWord, "dq",
        <<Field(source), Field(target), Field(description), Field(<<"7">>)>>)

\* The records of one reply to the extraction prompt: none, a name in another
\* case with a relationship to itself, the same name twice, an entity with a
\* relationship to a name no entity record gives, a repeated relationship,
\* and one in the opposite direction.
ChunkRecordLists ==
    {<<>>,
     <<EntityRec(NameAL, Desc2Text), RelRec(NameAL, NameAL, Rel1)>>,
     <<EntityRec(NameAl, Desc1), EntityRec(NameAl, Desc2Text)>>,
     <<EntityRec(NameAl, Desc1), RelRec(NameAl, NameB, Rel1)>>,
     <<RelRec(NameAl, NameB, Rel1), RelRec(NameAl, NameB, Rel1)>>,
     <<RelRec(NameB, NameAl, Rel2)>>}

ChunkReplies == {Serialize(records, DefaultFormat) : records \in ChunkRecordLists}

\* What parse_extraction_output(reply), called as at tools.py:820, makes of
\* each reply.
Extracted == [reply \in ChunkReplies |-> parse_extraction_output(reply, NoArg, NoArg)]

\* chunk_id arguments of the call after n calls: the id of the first chunk
\* again, or a new one.
ChunkIds(n) == {0, n}

ChunkText == <<"t", "e", "x", "t">>

\* The nodes with the name.
NodeIndex(ns, name) == {i \in 1..Len(ns) : ns[i].name = name}

\* A node is made for the name whatever the store holds.
CreateEntity(ns, name) ==
    Append(ns, [name |-> name, labels |-> {}, described |-> FALSE,
                description |-> <<>>, mentioned_by |-> {}])

\* MERGE (n:__Entity__ {name: ...}), tools.py:296 and 304-305: the node with
\* the name, made when there is none. A node made here has no description
\* property yet (described FALSE).
MergeEntity(ns, name) ==
    IF NodeIndex(ns, name) # {} THEN ns
    ELSE Append(ns, [name |-> name, labels |-> {}, described |-> FALSE,
                     description |-> <<>>, mentioned_by |-> {}])

\* tools.py:298: coalesce(n.description, []) + [row.entity_description].
AppendDescription(description, d) == Append(description, d)

\* tools.py:297-299: the label, the description and the MENTIONS edge of chunk
\* c, set on the node of the row.
SetEntityRow(ns, row, c) ==
    [i \in 1..Len(ns) |->
        IF ns[i].name = row.entity_name
        THEN [ns[i] EXCEPT !.labels = @ \cup {row.entity_type},
                           !.described = TRUE,
                           !.description = AppendDescription(@, row.entity_description),
                           !.mentioned_by = @ \cup {c}]
        ELSE ns[i]]

\* tools.py:295-299: UNWIND $data, row by row.
RECURSIVE ImportNodeRows(_, _, _)
ImportNodeRows(ns, data, c) ==
    IF data = <<>> THEN ns
    ELSE ImportNodeRows(SetEntityRow(MergeEntity(ns, Head(data).entity_name), Head(data), c),
                        Tail(data), c)

\* tools.py:291-293: MERGE the book and its chunk, SET c.text.
MergeChunk(cs, book_id, chunk_id, chunk_text) ==
    {c \in cs : ~(c.book = book_id /\ c.id = chunk_id)}
        \cup {[book |-> book_id, id |-> chunk_id, text |-> chunk_text]}

\* An edge is made only when the store holds none from s to t.
MergeRelationship(es, e) ==
    IF \E k \in 1..Len(es) : es[k].s = e.s /\ es[k].t = e.t THEN es ELSE Append(es, e)

\* tools.py:306: CREATE (s)-[r:RELATIONSHIP {...}]->(t).
CreateRelationship(es, e) == Append(es, e)

\* The node of the name, once merged.
NodeOf(ns, name) == CHOOSE i \in 1..Len(ns) : ns[i].name = name

\* tools.py:303-306: UNWIND $data; g is [nodes, edges].
RECURSIVE ImportRelationshipRows(_, _)
ImportRelationshipRows(g, data) ==
    IF data = <<>> THEN g
    ELSE ImportRelationshipRows(
             [nodes |-> MergeEntity(MergeEntity(g.nodes, Head(data).source_entity),
                                    Head(data).target_entity),
              edges |-> CreateRelationship(g.edges,
                            [s |-> NodeOf(MergeEntity(g.nodes, Head(data).source_entity),
                                          Head(data).source_entity),
                             t |-> NodeOf(MergeEntity(MergeEntity(g.nodes,
                                                                  Head(data).source_entity),
                                                      Head(data).target_entity),
                                          Head(data).target_entity),
                             description |-> Head(data).relationship_description,
                             strength |-> Head(data).relationship_strength])],
             Tail(data))

\* The entity rows as the history keeps them.
MentionRows(data) ==
    [i \in 1..Len(data) |-> [name |-> data[i].entity_name,
                             description |-> data[i].entity_description]]

\* import_nodes_and_relationships(book_id, chunk_id, text, entities,
\* relationships, driver), tools.py:870-903, called with the two lists that
\* parse_extraction_output makes of a reply (tools.py:820, 1308).
ImportExtracted(d, chunk_id, reply) ==
    /\ imports < MaxImports
    /\ imports' = imports + 1
    /\ import_call' = "import_nodes_and_relationships"
    /\ \E extracted \in {Extracted[reply]} :
          IF DriverUnavailable(d)
          THEN /\ import_outcome' = "RuntimeError"
               /\ UNCHANGED <<chunks, entity_nodes, edges, mentions, rel_rows>>
          ELSE /\ import_outcome' = "returned"
               /\ chunks' = MergeChunk(chunks, "book", chunk_id, ChunkText)
               /\ mentions' = mentions \o MentionRows(extracted.nodes)
               /\ rel_rows' = rel_rows + Len(extracted.relationships)
               /\ \E ns \in {ImportNodeRows(entity_nodes, extracted.nodes, chunk_id)} :
                     \E g \in {ImportRelationshipRows([nodes |-> ns, edges |-> edges],
                                                      extracted.relationships)} :
                        /\ entity_nodes' = g.nodes
                        /\ edges' = g.edges
    /\ UNCHANGED <<summarized, summarized_before, summary_calls>>

\* An edge between s and t, in either direction.
Joins(e, s, t) ==
    \/ e.s = s /\ e.t = t
    \/ e.s = t /\ e.t = s

\* The SUMMARIZED_RELATIONSHIP edges between s and t.
SummarizedBetween(sm, s, t) == {k \in 1..Len(sm) : Joins(sm[k], s, t)}

\* An edge is made for every row.
CreateSummarized(sm, s, t, summary) == Append(sm, [s |-> s, t |-> t, summary |-> summary])

\* tools.py:763-764 and 772-773: MERGE (s)-[r:SUMMARIZED_RELATIONSHIP]-(t),
\* SET r.summary. The pattern has no direction: an edge either way matches,
\* and one from s to t is made when there is none.
MergeSummarized(sm, s, t, summary) ==
    IF \E k \in 1..Len(sm) : Joins(sm[k], s, t)
    THEN [k \in 1..Len(sm) |->
            IF Joins(sm[k], s, t) THEN [sm[k] EXCEPT !.summary = summary] ELSE sm[k]]
    ELSE Append(sm, [s |-> s, t |-> t, summary |-> summary])

\* Summaries import_rels_summary is called with: none, one pair, and the pair
\* in both orders followed by a pair with a name the store does not hold.
Sum1 == <<"s", "1">>
Sum2 == <<"s", "2">>
SummaryRow(source, target, summary) ==
    [source |-> source, target |-> target, summary |-> summary]
RelSummaries ==
    {<<>>,
     <<SummaryRow(NameAl, NameB, Sum1)>>,
     <<SummaryRow(NameAl, NameB, Sum1), SummaryRow(NameB, NameAl, Sum2),
       SummaryRow(NameAl, NameC, Sum1)>>}

\* tools.py:760-765: UNWIND $data; a row whose source or target is not in the
\* store matches nothing.
RECURSIVE ImportSummaryRows(_, _, _)
ImportSummaryRows(sm, ns, data) ==
    IF data = <<>> THEN sm
    ELSE ImportSummaryRows(
             IF NodeIndex(ns, Head(data).source) # {} /\ NodeIndex(ns, Head(data).target) # {}
             THEN MergeSummarized(sm, NodeOf(ns, Head(data).source),
                                  NodeOf(ns, Head(data).target), Head(data).summary)
             ELSE sm,
             ns, Tail(data))

\* tools.py:769: (s)-[e:RELATIONSHIP]-(t) matches every edge between the two
\* nodes of p, as a row from its source and as a row from its target.
MatchedRows(es, p) ==
    {[edge |-> k, s |-> es[k].s, t |-> es[k].t, description |-> es[k].description] :
        k \in {k \in 1..Len(es) : {es[k].s, es[k].t} = p}}
    \cup
    {[edge |-> k, s |-> es[k].t, t |-> es[k].s, description |-> es[k].description] :
        k \in {k \in 1..Len(es) : {es[k].s, es[k].t} = p}}

\* tools.py:770: the pairs of nodes that have a RELATIONSHIP edge and no
\* SUMMARIZED_RELATIONSHIP edge.
UnsummarizedPairs(sm, es) ==
    {p \in {{es[k].s, es[k].t} : k \in 1..Len(es)} :
        \A s, t \in p : p = {s, t} => SummarizedBetween(sm, s, t) = {}}

RECURSIVE SetToSeq(_)
SetToSeq(S) ==
    IF S = {} THEN <<>>
    ELSE LET x == CHOOSE x \in S : TRUE IN <<x>> \o SetToSeq(S \ {x})

\* The store fixes no order for the rows of a pair. What the order decides is
\* the row that comes first, whose MERGE makes the edge, and the row that
\* comes last, whose SET stays: every choice of the two.
RowOrders(rows) ==
    IF Cardinality(rows) = 1 THEN {SetToSeq(rows)}
    ELSE {<<ends[1]>> \o SetToSeq(rows \ {ends[1], ends[2]}) \o <<ends[2]>> :
             ends \in {e \in rows \X rows : e[1] # e[2]}}

\* tools.py:772-773 for the rows of one pair, in the order given.
RECURSIVE SummarizeRows(_, _)
SummarizeRows(sm, order) ==
    IF order = <<>> THEN sm
    ELSE SummarizeRows(MergeSummarized(sm, Head(order).s, Head(order).t,
                                       Head(order).description),
                       Tail(order))

\* tools.py:768-774: the stores the second query may leave.
RECURSIVE SummarizePairs(_, _, _)
SummarizePairs(sm, es, pairs) ==
    IF pairs = {} THEN {sm}
    ELSE UNION {SummarizePairs(SummarizeRows(sm, order), es,
                               pairs \ {CHOOSE p \in pairs : TRUE}) :
                   order \in RowOrders(MatchedRows(es, CHOOSE p \in pairs : TRUE))}

\* import_rels_summary(rel_summaries, driver), tools.py:754-774.
import_rels_summary(rel_summaries, d) ==
    /\ summary_calls < MaxSummaryCalls
    /\ summary_calls' = summary_calls + 1
    /\ import_call' = "import_rels_summary"
    /\ summarized_before' = Len(summarized)
    /\ IF DriverUnavailable(d)
       THEN /\ import_outcome' = "RuntimeError"
            /\ UNCHANGED summarized
       ELSE /\ import_outcome' = "returned"
            /\ \E first \in {ImportSummaryRows(summarized, entity_nodes, rel_summaries)} :
                  \E second \in SummarizePairs(first, edges, UnsummarizedPairs(first, edges)) :
                     summarized' = second
    /\ UNCHANGED <<chunks, entity_nodes, edges, mentions, rel_rows, imports>>

ImportOff ==
    /\ chunks = {}
    /\ entity_nodes = <<>>
    /\ edges = <<>>
    /\ summarized = <<>>
    /\ import_call = "none"
    /\ import_outcome = "none"
    /\ mentions = <<>>
    /\ rel_rows = 0
    /\ summarized_before = 0
    /\ imports = 0
    /\ summary_calls = 0

(***************************************************************************)
(* get_community_info, tools.py:906-922, and community_info_query,         *)
(* tools.py:776-786, over the store of calculate_communities.              *)
(***************************************************************************)
VARIABLES
    communities    \* tools.py:1369: the list the last call returned, <<>> when
                   \* the last call was not a returned get_community_info

infoVars == <<communities>>

\* A property the node or edge does not have, and a null of OPTIONAL MATCH.
Null == "null"

\* tools.py:777-778: the entities with a louvain property, collected by its
\* value.
LouvainIds(lv) == {lv[e] : e \in DOMAIN lv}
CollectedNodes(ents, lv, id) == {e \in ents \cap DOMAIN lv : lv[e] = id}

\* Every collected group is kept.
AnySize(nodes) == TRUE

\* tools.py:779: WHERE size(nodes) > 1.
SizeFilter(nodes) == Cardinality(nodes) > 1

\* tools.py:780-781: the map of one node; the imports of this store give an
\* entity neither a summary nor a label besides __Entity__.
NodeData(n) == [id |-> n, description |-> Null, type |-> Null]

\* tools.py:782-785: the pattern has no direction, so an edge matches from
\* either end; collect(DISTINCT ...) keeps one map of each kind, and the
\* imports of this store give an edge no description. With no edge inside
\* the group OPTIONAL MATCH leaves one row of nulls.
RelMaps(nodes, r) ==
    LET found == {[start |-> e[1], type |-> "RELATIONSHIP", end |-> e[2],
                   description |-> Null] :
                     e \in {x \in nodes \X nodes : r[<<x[1], x[2]>>] > 0 \/ r[<<x[2], x[1]>>] > 0}}
    IN IF found # {} THEN found
       ELSE {[start |-> Null, type |-> Null, end |-> Null, description |-> Null]}

\* tools.py:786: the rows one group may give; the store fixes no order inside
\* a collected list.
CommunityRecords(ents, r, lv, id) ==
    {[communityId |-> id, nodes |-> [k \in 1..Len(o) |-> NodeData(o[k])], rels |-> rl] :
        o \in SeqsOf(CollectedNodes(ents, lv, id)),
        rl \in SeqsOf(RelMaps(CollectedNodes(ents, lv, id), r))}

RECURSIVE RecordLists(_, _, _, _)
RecordLists(ents, r, lv, ids) ==
    IF ids = <<>> THEN {<<>>}
    ELSE {<<first>> \o rest : first \in CommunityRecords(ents, r, lv, Head(ids)),
                              rest \in RecordLists(ents, r, lv, Tail(ids))}

\* tools.py:776-786: the lists of rows the query may return, in any order of
\* the groups.
community_info_query(ents, r, lv) ==
    UNION {RecordLists(ents, r, lv, ids) :
              ids \in SeqsOf({id \in LouvainIds(lv) :
                                 SizeFilter(CollectedNodes(ents, lv, id))})}

\* get_community_info(driver), tools.py:906-922.
get_community_info(d) ==
    /\ pc = "idle"
    /\ call' = "get_community_info"
    /\ queryLog' = <<>>
    /\ result' = NoResult
    /\ IF DriverUnavailable(d)
       THEN /\ outcome' = "RuntimeError"
            /\ communities' = <<>>
       ELSE /\ outcome' = "returned"
            /\ communities' \in community_info_query(entities, rels, louvain)
    /\ UNCHANGED <<UTILS_AVAILABLE, neo4j_driver, entities, rels, louvain, pc, driver,
                   entities_data, all_entities, community_list,
                   community_assignment, lastRun>>

InfoOff == communities = <<>>

(***************************************************************************)
(* get_summarize_community_prompt, tools.py:571-631. A dict is a function  *)
(* from its keys; a value is a str or None.                                *)
(***************************************************************************)
\* Entities or relationships one call is given at most.
MaxListLen == 11

VARIABLES
    prompt_call,            \* "none" or "get_summarize_community_prompt"
    prompt_nodes,           \* tools.py:571, the nodes argument
    prompt_relationships,   \* tools.py:571, the relationships argument
    node_info,              \* tools.py:575, the lines of the entity table
    rel_info,               \* tools.py:583, the lines of the relationship table
    input_text              \* tools.py:591, the text the prompt embeds

promptVars == <<prompt_call, prompt_nodes, prompt_relationships, node_info, rel_info,
                input_text>>

PyNone == [kind |-> "None", text |-> <<>>]
PyStr(t) == [kind |-> "str", text |-> t]

NoneText == <<"N", "o", "n", "e">>

\* A value inside an f-string: str(None) is the word None.
Format(v) == IF v.kind = "None" THEN NoneText ELSE v.text

\* str(n) of a natural number.
DigitChars == <<"0", "1", "2", "3", "4", "5", "6", "7", "8", "9">>
RECURSIVE IntStr(_)
IntStr(n) ==
    IF n < 10 THEN <<DigitChars[n + 1]>>
    ELSE IntStr(n \div 10) \o <<DigitChars[(n % 10) + 1]>>

\* dict.get(key, default): the default only when the key is not in the dict.
DictGet(d, key, default) == IF key \in DOMAIN d THEN d[key] ELSE default

UnknownPrefix ==
    <<"U", "n", "k", "n", "o", "w", "n", "_">>
UnknownText ==
    <<"U", "n", "k", "n", "o", "w", "n">>
NoDescriptionText ==
    <<"N", "o", " ", "d", "e", "s", "c", "r", "i", "p", "t", "i", "o", "n",
      " ", "a", "v", "a", "i", "l", "a", "b", "l", "e">>
IsRelatedTo ==
    <<" ", "i", "s", " ", "r", "e", "l", "a", "t", "e", "d", " ", "t", "o",
      " ">>
EntitiesHeader ==
    <<"E", "n", "t", "i", "t", "i", "e", "s", "\n", "\n", "i", "d", ",",
      "e", "n", "t", "i", "t", "y", ",", "d", "e", "s", "c", "r", "i", "p",
      "t", "i", "o", "n", "\n">>
RelationshipsHeader ==
    <<"\n", "\n", "R", "e", "l", "a", "t", "i", "o", "n", "s", "h", "i",
      "p", "s", "\n", "\n", "i", "d", ",", "s", "o", "u", "r", "c", "e",
      ",", "t", "a", "r", "g", "e", "t", ",", "d", "e", "s", "c", "r", "i",
      "p", "t", "i", "o", "n", "\n">>

\* tools.py:577 and 585: the number of rows a table shows at most.
MaxShown == 10

\* The whole list, whatever its length.
WholeList(list) == list

\* tools.py:577, 585: list[:10].
FirstRows(list) == SubSeq(list, 1, IF Len(list) < MaxShown THEN Len(list) ELSE MaxShown)

\* tools.py:578-581, for the node at index i of the enumeration (from 0).
NodeLine(i, node) ==
    IntStr(i + 1) \o <<",">>
        \o Format(DictGet(node, "name", PyStr(UnknownPrefix \o IntStr(i))))
        \o <<",">>
        \o Format(DictGet(node, "description", PyStr(NoDescriptionText)))

\* tools.py:586-590.
RelSource(rel) == DictGet(rel, "source", PyStr(UnknownText))
RelTarget(rel) == DictGet(rel, "target", PyStr(UnknownText))
RelLine(i, rel) ==
    IntStr(i + 1) \o <<",">> \o Format(RelSource(rel)) \o <<",">> \o Format(RelTarget(rel))
        \o <<",">>
        \o Format(DictGet(rel, "description",
                          PyStr(Format(RelSource(rel)) \o IsRelatedTo
                                    \o Format(RelTarget(rel)))))

\* tools.py:576-581 and 584-590: the two loops.
NodeInfo(nodes) == [k \in 1..Len(FirstRows(nodes)) |-> NodeLine(k - 1, FirstRows(nodes)[k])]
RelInfo(relationships) ==
    [k \in 1..Len(FirstRows(relationships)) |-> RelLine(k - 1, FirstRows(relationships)[k])]

\* tools.py:591-600.
InputText(nodeLines, relLines) ==
    EntitiesHeader \o Join(nodeLines, <<"\n">>) \o RelationshipsHeader
        \o Join(relLines, <<"\n">>) \o <<"\n">>

\* get_summarize_community_prompt(nodes, relationships), tools.py:571-631; the
\* text returned is input_text inside a fixed instruction.
get_summarize_community_prompt(nodes, relationships) ==
    /\ prompt_call' = "get_summarize_community_prompt"
    /\ prompt_nodes' = nodes
    /\ prompt_relationships' = relationships
    /\ \E nodeLines \in {NodeInfo(nodes)}, relLines \in {RelInfo(relationships)} :
          /\ node_info' = nodeLines
          /\ rel_info' = relLines
          /\ input_text' = InputText(nodeLines, relLines)

\* The arguments of a call: lists of up to MaxListLen entities and
\* relationships, complete but for one, which lacks a field or carries None or
\* the empty string in it.
ListLens == {0, 1, MaxShown - 1, MaxShown} \cup ((MaxShown + 1)..MaxListLen)

NodeName(k) == <<"N">> \o IntStr(k)
NodeDescription(k) == <<"d">> \o IntStr(k)
TypeOfNode == <<"T">>

NodeKinds == {"full", "no name", "no description", "None description",
              "empty description", "no field"}

NodeOfKind(kind, k) ==
    CASE kind = "full" ->
            [name |-> PyStr(NodeName(k)), type |-> PyStr(TypeOfNode),
             description |-> PyStr(NodeDescription(k))]
      [] kind = "no name" ->
            [type |-> PyStr(TypeOfNode), description |-> PyStr(NodeDescription(k))]
      [] kind = "no description" ->
            [name |-> PyStr(NodeName(k)), type |-> PyStr(TypeOfNode)]
      [] kind = "None description" ->
            [name |-> PyStr(NodeName(k)), type |-> PyStr(TypeOfNode), description |-> PyNone]
      [] kind = "empty description" ->
            [name |-> PyStr(NodeName(k)), type |-> PyStr(TypeOfNode),
             description |-> PyStr(<<>>)]
      [] OTHER -> [key \in {} |-> PyNone]

SourceName(k) == <<"S">> \o IntStr(k)
TargetName(k) == <<"T">> \o IntStr(k)
RelDescription(k) == <<"r">> \o IntStr(k)

RelKinds == {"full", "no source", "no target", "no description", "no field"}

RelOfKind(kind, k) ==
    CASE kind = "full" ->
            [source |-> PyStr(SourceName(k)), target |-> PyStr(TargetName(k)),
             description |-> PyStr(RelDescription(k))]
      [] kind = "no source" ->
            [target |-> PyStr(TargetName(k)), description |-> PyStr(RelDescription(k))]
      [] kind = "no target" ->
            [source |-> PyStr(SourceName(k)), description |-> PyStr(RelDescription(k))]
      [] kind = "no description" ->
            [source |-> PyStr(SourceName(k)), target |-> PyStr(TargetName(k))]
      [] OTHER -> [key \in {} |-> PyNone]

\* The places of the odd one: first, or last.
NodeLists ==
    {[k \in 1..n |-> IF k = j THEN NodeOfKind(kind, k) ELSE NodeOfKind("full", k)] :
        n \in ListLens, j \in {1, MaxListLen}, kind \in NodeKinds}

RelLists ==
    {[k \in 1..n |-> IF k = j THEN RelOfKind(kind, k) ELSE RelOfKind("full", k)] :
        n \in ListLens, j \in {1, MaxListLen}, kind \in RelKinds}

\* record.data() of a row of community_info_query (tools.py:921) as Python
\* values: a name is a str of one character here, a null is None.
RelationshipType == <<"R", "E", "L", "A", "T", "I", "O", "N", "S", "H", "I", "P">>

PyValue(v) ==
    IF v = Null THEN PyNone
    ELSE IF v = "RELATIONSHIP" THEN PyStr(RelationshipType)
    ELSE PyStr(<<v>>)

PyDict(map) == [key \in DOMAIN map |-> PyValue(map[key])]

PyDicts(maps) == [k \in 1..Len(maps) |-> PyDict(maps[k])]

\* generate_community_report_with_llm(nodes, relationships) up to its prompt
\* (tools.py:829-844), called with the nodes and rels of a community record
\* that get_community_info returned.
ReportPrompt(k) ==
    /\ call = "get_community_info"
    /\ k \in 1..Len(communities)
    /\ get_summarize_community_prompt(PyDicts(communities[k].nodes),
                                      PyDicts(communities[k].rels))

PromptOff ==
    /\ prompt_call = "none"
    /\ prompt_nodes = <<>>
    /\ prompt_relationships = <<>>
    /\ node_info = <<>>
    /\ rel_info = <<>>
    /\ input_text = <<>>

(***************************************************************************)
(* The map-reduce answerer. src/tools.py holds its two prompts             *)
(* (MAP_SYSTEM_PROMPT, REDUCE_SYSTEM_PROMPT, tools.py:961-1118) and no     *)
(* caller of them; the protocol around the prompts follows the design:     *)
(* one call of the language model per community report, every call         *)
(* answering with a list of {description, score} points or failing, then   *)
(* one call over the surviving points, ranked by descending score.         *)
(***************************************************************************)
MaxReports == 3

VARIABLES answer_pc, reports, map_results, report_data, reduce_reply, answer

answerVars == <<answer_pc, reports, map_results, report_data, reduce_reply, answer>>

MapFailed == [status |-> "failed", points |-> <<>>]

MapReturned(points) == [status |-> "returned", points |-> points]

Point(description, score) == [description |-> description, score |-> score]

\* What the language model may do with one report.
MapReplies ==
    {MapFailed,
     MapReturned(<<>>),
     MapReturned(<<Point("none", 0)>>),
     MapReturned(<<Point("some", 50)>>),
     MapReturned(<<Point("none", 0), Point("some", 50), Point("key", 100)>>)}

ReduceFailed == [status |-> "failed", text |-> ""]

ReduceReplies == {ReduceFailed, [status |-> "returned", text |-> "prose"]}

NoAnswer == [status |-> "none", text |-> "", cause |-> "none"]

\* Points at or below the threshold are dropped before the reduce call.
ScoreThreshold == 0

\* A failed map call is recorded with no points, under the report it was for.
MapResult(report, reply) ==
    [report |-> report,
     status |-> reply.status,
     points |-> IF reply.status = "failed"
                THEN <<>>
                ELSE [k \in 1..Len(reply.points) |->
                         [description |-> reply.points[k].description,
                          score |-> reply.points[k].score,
                          report |-> report]]]

AbortOnFailure(status, mapped, total) ==
    IF status = "failed" THEN "done"
    ELSE IF mapped = total THEN "reduce" ELSE "map"

\* Where the answerer goes after a map call: on to the next report, and to
\* the reduce call once every report was mapped, whatever the call did.
AfterMap(status, mapped, total) ==
    IF mapped = total THEN "reduce" ELSE "map"

RECURSIVE AllPoints(_)
AllPoints(results) ==
    IF results = <<>> THEN <<>>
    ELSE results[1].points \o AllPoints(Tail(results))

Surviving(points) == SelectSeq(points, LAMBDA p : p.score > ScoreThreshold)

\* Insertion after the points of the same or a higher score: the ranking is
\* by descending score and keeps the order of the reports among equals.
RECURSIVE InsertRanked(_, _)
InsertRanked(ranked, p) ==
    IF ranked = <<>> THEN <<p>>
    ELSE IF Head(ranked).score >= p.score
         THEN <<Head(ranked)>> \o InsertRanked(Tail(ranked), p)
         ELSE <<p>> \o ranked

RECURSIVE Ranked(_)
Ranked(points) ==
    IF points = <<>> THEN <<>>
    ELSE InsertRanked(Ranked(SubSeq(points, 1, Len(points) - 1)), points[Len(points)])

ReduceInput(results) == Ranked(Surviving(AllPoints(results)))

Ask(n) ==
    /\ answer_pc = "none"
    /\ answer_pc' = IF n = 0 THEN "reduce" ELSE "map"
    /\ reports' = [i \in 1..n |-> i]
    /\ map_results' = <<>>
    /\ report_data' = <<>>
    /\ reduce_reply' = ReduceFailed
    /\ answer' = NoAnswer

MapReport(reply) ==
    /\ answer_pc = "map"
    /\ Len(map_results) < Len(reports)
    /\ map_results' = Append(map_results, MapResult(reports[Len(map_results) + 1], reply))
    /\ answer_pc' = AfterMap(reply.status, Len(map_results) + 1, Len(reports))
    /\ report_data' = IF answer_pc' = "reduce" THEN ReduceInput(map_results') ELSE <<>>
    /\ UNCHANGED <<reports, reduce_reply, answer>>

ReduceReports(reply) ==
    /\ answer_pc = "reduce"
    /\ answer_pc' = "done"
    /\ reduce_reply' = reply
    /\ answer' = IF reply.status = "failed"
                 THEN [status |-> "raised", text |-> "", cause |-> "reduce"]
                 ELSE [status |-> "answered", text |-> reply.text, cause |-> "none"]
    /\ UNCHANGED <<reports, map_results, report_data>>

AnswerOff ==
    /\ answer_pc = "none"
    /\ reports = <<>>
    /\ map_results = <<>>
    /\ report_data = <<>>
    /\ reduce_reply = ReduceFailed
    /\ answer = NoAnswer

(***************************************************************************)
(* clear_all_graph_data, tools.py:1380-1459, and clear_specific_labels,    *)
(* tools.py:1462-1514, over the store as a labelled graph: nodes with      *)
(* their labels, relationships between two nodes, the named indexes and    *)
(* constraints, and the graph projection 'entity' of the GDS library.      *)
(***************************************************************************)
\* Calls of the two functions in one behaviour.
MaxClears == 2

VARIABLES
    graph,         \* [nodes, rels, indexes, constraints, gds]
    graph_before,  \* history: the store when the last call began
    clear_call,    \* the last call: [function, labels, driver, outcome]
    clear_prev,    \* history: the call before it and its stats, [call, stats],
                   \* with no write in between
    clear_stats,   \* the dict the last call returned
    clears         \* calls so far

clearVars == <<graph, graph_before, clear_call, clear_prev, clear_stats, clears>>

Node(id, labels) == [id |-> id, labels |-> labels]

Rel(id, s, t) == [id |-> id, s |-> s, t |-> t]

EmptyGraph == [nodes |-> {}, rels |-> {}, indexes |-> {}, constraints |-> {}, gds |-> FALSE]

\* tools.py:1479: the labels cleared when none are given.
DefaultLabels == <<"__Entity__", "__Chunk__", "__Community__", "Book">>

\* Graphs as the queries of the module write them (tools.py:290-307,
\* 719-731), and a node of a label that is none of the module's.
BookGraph ==
    [nodes |-> {Node(1, {"Book"}), Node(2, {"__Chunk__"}), Node(3, {"__Entity__", "PERSON"})},
     rels |-> {Rel(1, 1, 2), Rel(2, 2, 3)}]

EntityGraph ==
    [nodes |-> {Node(1, {"__Entity__", "PERSON"}), Node(2, {"__Entity__"}),
                Node(3, {"__Community__"})},
     rels |-> {Rel(1, 1, 2), Rel(2, 1, 2), Rel(3, 2, 1), Rel(4, 1, 1), Rel(5, 1, 3)}]

MixedGraph ==
    [nodes |-> {Node(1, {"__Entity__"}), Node(2, {"Document"}), Node(3, {"Document"})},
     rels |-> {Rel(1, 2, 1), Rel(2, 2, 3)}]

NodesAndRels == {[nodes |-> {}, rels |-> {}], BookGraph, EntityGraph, MixedGraph}

\* An index is [name, owned]: owned by a constraint, it is dropped with the
\* constraint only, and DROP INDEX raises.
Schemas ==
    {[indexes |-> {}, constraints |-> {}],
     [indexes |-> {[name |-> "entity_name", owned |-> FALSE]}, constraints |-> {}],
     [indexes |-> {[name |-> "entity_name", owned |-> FALSE],
                   [name |-> "book_id", owned |-> TRUE]},
      constraints |-> {"book_id"}]}

LabelLists == {DefaultLabels, <<>>, <<"__Entity__">>, <<"Document", "__Entity__", "Document">>}

NoStats == [function |-> "none"]

NoClear == [function |-> "none", labels |-> <<>>, driver |-> "None", outcome |-> "none"]

NoPrev == [call |-> NoClear, stats |-> NoStats]

\* tools.py:1400: MATCH ()-[r]-() matches a relationship from each of its
\* ends, a loop once; count(r) counts the matches.
MatchedEnds(rs) ==
    2 * Cardinality({r \in rs : r.s # r.t}) + Cardinality({r \in rs : r.s = r.t})

\* tools.py:1420-1427: DROP INDEX of every index shown; the drop of an
\* index owned by a constraint raises, and the loop goes on.
DropIndexes(indexes) == {i \in indexes : i.owned}

\* tools.py:1431-1439: DROP CONSTRAINT drops the index it owns with it.
DropConstraints(g) ==
    [g EXCEPT !.constraints = {},
              !.indexes = {i \in g.indexes : ~(i.owned /\ i.name \in g.constraints)}]

KeepNodes(ns) == ns

\* tools.py:1405: MATCH (n) DELETE n, after every relationship was deleted.
DeleteNodes(ns) == {}

ClearAll(g) ==
    DropConstraints([nodes |-> DeleteNodes(g.nodes),
                     rels |-> {},
                     indexes |-> DropIndexes(g.indexes),
                     constraints |-> g.constraints,
                     gds |-> FALSE])

\* tools.py:1442-1450.
ClearAllStats(g) ==
    [function |-> "clear_all_graph_data",
     deleted_relationships |-> MatchedEnds(g.rels),
     deleted_nodes |-> Cardinality(g.nodes),
     remaining_nodes |-> Cardinality(ClearAll(g).nodes),
     status |-> IF Cardinality(ClearAll(g).nodes) = 0 THEN "success" ELSE "warning"]

\* tools.py:1489-1493: MATCH (n:label) DETACH DELETE n.
Labelled(g, label) == {n \in g.nodes : label \in n.labels}

DetachDelete(g, label) ==
    [g EXCEPT !.nodes = g.nodes \ Labelled(g, label),
              !.rels = {r \in g.rels : \A n \in Labelled(g, label) : r.s # n.id /\ r.t # n.id}]

\* tools.py:1485-1497: the loop over the labels; acc is [graph, total].
RECURSIVE ClearLabels(_, _)
ClearLabels(acc, labels) ==
    IF labels = <<>> THEN acc
    ELSE ClearLabels([graph |-> DetachDelete(acc.graph, Head(labels)),
                      total |-> acc.total + Cardinality(Labelled(acc.graph, Head(labels)))],
                     Tail(labels))

\* Other code writes the store between two clears.
WriteGraph(nr, schema, gds) ==
    /\ clears < MaxClears
    /\ graph' = [nodes |-> nr.nodes, rels |-> nr.rels, indexes |-> schema.indexes,
                 constraints |-> schema.constraints, gds |-> gds]
    /\ graph' # graph
    /\ clear_prev' = NoPrev
    /\ clear_call' = NoClear
    /\ clear_stats' = NoStats
    /\ graph_before' = graph'
    /\ UNCHANGED clears

clear_all_graph_data(d) ==
    /\ clears < MaxClears
    /\ clears' = clears + 1
    /\ clear_prev' = [call |-> clear_call, stats |-> clear_stats]
    /\ graph_before' = graph
    /\ IF DriverUnavailable(d)
       THEN /\ clear_call' = [function |-> "clear_all_graph_data", labels |-> <<>>,
                              driver |-> d, outcome |-> "RuntimeError"]
            /\ clear_stats' = NoStats
            /\ UNCHANGED graph
       ELSE /\ clear_call' = [function |-> "clear_all_graph_data", labels |-> <<>>,
                              driver |-> d, outcome |-> "returned"]
            /\ clear_stats' = ClearAllStats(graph)
            /\ graph' = ClearAll(graph)

\* labels_to_clear = None is the default list (tools.py:1478-1479).
clear_specific_labels(labels_to_clear, d) ==
    /\ clears < MaxClears
    /\ clears' = clears + 1
    /\ clear_prev' = [call |-> clear_call, stats |-> clear_stats]
    /\ graph_before' = graph
    /\ IF DriverUnavailable(d)
       THEN /\ clear_call' = [function |-> "clear_specific_labels",
                              labels |-> labels_to_clear, driver |-> d,
                              outcome |-> "RuntimeError"]
            /\ clear_stats' = NoStats
            /\ UNCHANGED graph
       ELSE /\ clear_call' = [function |-> "clear_specific_labels",
                              labels |-> labels_to_clear, driver |-> d,
                              outcome |-> "returned"]
            /\ \E acc \in {ClearLabels([graph |-> graph, total |-> 0], labels_to_clear)} :
                  /\ graph' = [acc.graph EXCEPT !.gds = FALSE]
                  /\ clear_stats' = [function |-> "clear_specific_labels",
                                     labels_cleared |-> labels_to_clear,
                                     total_deleted_nodes |-> acc.total,
                                     status |-> "success"]

ClearOff ==
    /\ graph = EmptyGraph
    /\ graph_before = EmptyGraph
    /\ clear_call = NoClear
    /\ clear_prev = NoPrev
    /\ clear_stats = NoStats
    /\ clears = 0

ParseOff ==
    /\ ppc = "off"
    /\ format = HashPipe
    /\ llm_records = <<>>
    /\ output_str = <<>>
    /\ record_arg = NoArg
    /\ tuple_arg = NoArg
    /\ parsed = NotParsed

StoreInit ==
    /\ UTILS_AVAILABLE \in BOOLEAN
    /\ neo4j_driver = IF UTILS_AVAILABLE THEN "driver" ELSE "None"
    /\ entities = {}
    /\ rels = [e \in Names \X Names |-> 0]
    /\ louvain = EmptyMap
    /\ pc = "idle"
    /\ call = "none"
    /\ driver = "None"
    /\ outcome = "none"
    /\ queryLog = <<>>
    /\ entities_data = <<>>
    /\ all_entities = {}
    /\ community_list = <<>>
    /\ community_assignment = EmptyMap
    /\ result = NoResult
    /\ lastRun = "none"

restVars == <<infoVars, promptVars, answerVars, clearVars>>

RestOff == InfoOff /\ PromptOff /\ AnswerOff /\ ClearOff

vars == <<storeVars, parseVars, llmVars, importVars, restVars>>

Init == StoreInit /\ ParseOff /\ LLMOff /\ ImportOff /\ RestOff

StoreNext ==
    \/ \E d \in Drivers, ents_in \in ChunkEntityLists, rels_in \in ChunkRelLists :
          import_nodes_and_relationships(d, ents_in, rels_in)
    \/ \E d \in Drivers : CalcBegin(d)
    \/ CalcFetch
    \/ CalcComponents
    \/ CalcWrite
    \/ CalcReturn

Next == StoreNext /\ UNCHANGED <<parseVars, llmVars, importVars, restVars>>

Spec == Init /\ [][Next]_vars

\* The parser alone: an output is written record by record, then parsed.
InitParse ==
    /\ StoreInit
    /\ UTILS_AVAILABLE
    /\ ppc = "llm"
    /\ format \in Formats
    /\ llm_records = <<>>
    /\ output_str = Serialize(<<>>, format)
    /\ record_arg = NoArg
    /\ tuple_arg = NoArg
    /\ parsed = NotParsed
    /\ LLMOff
    /\ ImportOff
    /\ RestOff

NextParse ==
    /\ \/ \E r \in RecordPool \cup (IF llm_records = <<>>
                                       THEN {StrengthProbe(t) : t \in StrengthTexts}
                                       ELSE {}) : EmitRecord(r)
       \/ EmitExample
       \/ \E ra \in {NoArg, Arg(format.record)}, ta \in {NoArg, Arg(format.tuple)} :
             Parse(ra, ta)
       \/ \E a \in {<<Arg(<<>>), NoArg>>, <<NoArg, Arg(<<>>)>>} : Parse(a[1], a[2])
    /\ UNCHANGED <<storeVars, llmVars, importVars, restVars>>

SpecParse == InitParse /\ [][NextParse]_vars

\* The functions that call the language model, from any module state.
InitLLM ==
    /\ StoreInit
    /\ ParseOff
    /\ STRANDS_AVAILABLE \in (IF UTILS_AVAILABLE THEN {"True", "False"} ELSE {"undefined"})
    /\ llm_call = "none"
    /\ llm_text = <<>>
    /\ response = NoResponse
    /\ llm_outcome = "none"
    /\ json_value = JsonNull
    /\ extraction = NoExtraction
    /\ ImportOff
    /\ RestOff

NextLLM ==
    /\ \/ \E t \in ReportReplies : CallExtractJson(t)
       \/ \E backend \in Backends(ReportReplies) : generate_community_report_with_llm(backend)
       \/ \E backend \in Backends(ExtractionReplies) : extract_entities_with_llm(backend)
       \/ \E chunked_books \in ChunkedBooks, number_of_books \in 0..2 :
             process_book_chunks(chunked_books, number_of_books)
    /\ UNCHANGED <<storeVars, parseVars, importVars, restVars>>

SpecLLM == InitLLM /\ [][NextLLM]_vars

\* Replies imported chunk by chunk, and the summaries of the relationships.
\* The module has no driver of its own here (the import of utils failed), so
\* a call is served by the driver it is given or raises RuntimeError; with a
\* module-level driver both kinds of call write the same rows.
InitImport == StoreInit /\ ~UTILS_AVAILABLE /\ ParseOff /\ LLMOff /\ ImportOff /\ RestOff

NextImport ==
    /\ \/ \E d \in Drivers, chunk_id \in ChunkIds(imports), reply \in ChunkReplies :
             ImportExtracted(d, chunk_id, reply)
       \/ \E rel_summaries \in RelSummaries, d \in Drivers :
             import_rels_summary(rel_summaries, d)
    /\ UNCHANGED <<storeVars, parseVars, llmVars, restVars>>

SpecImport == InitImport /\ [][NextImport]_vars

\* The store with the community detector and get_community_info. The module
\* has no driver of its own here, so a call is served by the driver it is
\* given or raises RuntimeError.
InitInfo == StoreInit /\ ~UTILS_AVAILABLE /\ ParseOff /\ LLMOff /\ ImportOff /\ RestOff

NextInfo ==
    /\ \/ StoreNext /\ communities' = <<>>
       \/ \E d \in Drivers : get_community_info(d)
    /\ UNCHANGED <<parseVars, llmVars, importVars, promptVars, answerVars, clearVars>>

SpecInfo == InitInfo /\ [][NextInfo]_vars

\* One call of get_summarize_community_prompt.
InitPrompt == StoreInit /\ UTILS_AVAILABLE /\ ParseOff /\ LLMOff /\ ImportOff /\ RestOff

NextPrompt ==
    /\ prompt_call = "none"
    /\ \E nodes \in NodeLists, relationships \in RelLists :
          get_summarize_community_prompt(nodes, relationships)
    /\ UNCHANGED <<storeVars, parseVars, llmVars, importVars, infoVars, answerVars, clearVars>>

SpecPrompt == InitPrompt /\ [][NextPrompt]_vars

\* One question put to the map-reduce answerer over up to MaxReports reports.
InitAnswer == StoreInit /\ UTILS_AVAILABLE /\ ParseOff /\ LLMOff /\ ImportOff /\ RestOff

NextAnswer ==
    /\ \/ \E n \in 0..MaxReports : Ask(n)
       \/ \E reply \in MapReplies : MapReport(reply)
       \/ \E reply \in ReduceReplies : ReduceReports(reply)
    /\ UNCHANGED <<storeVars, parseVars, llmVars, importVars, infoVars, promptVars, clearVars>>

SpecAnswer == InitAnswer /\ [][NextAnswer]_vars

\* The store, the detector, get_community_info and the report prompt of a
\* record it returned. The prompt variables hold the last prompt and are
\* cleared by the next call of another function.
PromptCleared ==
    /\ prompt_call' = "none"
    /\ prompt_nodes' = <<>>
    /\ prompt_relationships' = <<>>
    /\ node_info' = <<>>
    /\ rel_info' = <<>>
    /\ input_text' = <<>>

InitReport == StoreInit /\ ~UTILS_AVAILABLE /\ ParseOff /\ LLMOff /\ ImportOff /\ RestOff

NextReport ==
    /\ \/ StoreNext /\ communities' = <<>> /\ PromptCleared
       \/ (\E d \in Drivers : get_community_info(d)) /\ PromptCleared
       \/ (\E k \in 1..Len(communities) : ReportPrompt(k)) /\ UNCHANGED <<storeVars, infoVars>>
    /\ UNCHANGED <<parseVars, llmVars, importVars, answerVars, clearVars>>

SpecReport == InitReport /\ [][NextReport]_vars

\* The store and the community detector alone, every call with the driver
\* it is given (the module has none of its own).
InitDetect == StoreInit /\ ~UTILS_AVAILABLE /\ ParseOff /\ LLMOff /\ ImportOff /\ RestOff

NextDetect == StoreNext /\ UNCHANGED <<parseVars, llmVars, importVars, restVars>>

SpecDetect == InitDetect /\ [][NextDetect]_vars

\* The two clears, called with and without a driver, on a store that other
\* code writes in between.
InitClear == StoreInit /\ ParseOff /\ LLMOff /\ ImportOff /\ RestOff

NextClear ==
    /\ \/ \E nr \in NodesAndRels, schema \in Schemas, gds \in BOOLEAN :
             WriteGraph(nr, schema, gds)
       \/ \E d \in Drivers : clear_all_graph_data(d)
       \/ \E labels_to_clear \in LabelLists, d \in Drivers :
             clear_specific_labels(labels_to_clear, d)
    /\ UNCHANGED <<storeVars, parseVars, llmVars, importVars, infoVars, promptVars, answerVars>>

SpecClear == InitClear /\ [][NextClear]_vars

(***************************************************************************)
(* Properties of calculate_communities, checked under Spec.                *)
(***************************************************************************)
\* The assignment is computed (and at "stats" also written).
Computed == pc \in {"write", "stats"}

\* The names the fetched rows show: a returned entity or a listed connection.
SnapshotNames ==
    {entities_data[i].entity : i \in 1..Len(entities_data)}
        \cup {n \in Names : \E i \in 1..Len(entities_data) :
                               \E j \in 1..Len(entities_data[i].connections) :
                                   entities_data[i].connections[j] = n}

\* The members of the community with id c.
MembersOf(f, c) == {e \in DOMAIN f : f[e] = c}

\* The partition an assignment induces.
PartitionOf(f) == {MembersOf(f, f[e]) : e \in DOMAIN f}

\* Entities joined by a path of RELATIONSHIP edges of the store, direction ignored.
Adjacent(a, b) == rels[<<a, b>>] > 0 \/ rels[<<b, a>>] > 0

RECURSIVE ReachFrom(_)
ReachFrom(S) ==
    LET T == S \cup {n \in entities : \E m \in S : Adjacent(m, n)}
    IN IF T = S THEN S ELSE ReachFrom(T)

Joined(a, b) == b \in ReachFrom({a})

\* C1: after calculate_communities has computed (and written) its assignment,
\* every name of the fetched snapshot has a community id, lies in exactly one
\* community of community_list, once, and after the write carries that id in
\* the store.
AssignmentTotalAndDisjoint ==
    Computed =>
        /\ DOMAIN community_assignment = SnapshotNames
        /\ SnapshotNames = entities
        /\ \A e \in SnapshotNames :
              /\ Cardinality({i \in 1..Len(community_list) :
                                \E j \in 1..Len(community_list[i]) :
                                    community_list[i][j] = e}) = 1
              /\ \A i \in 1..Len(community_list) :
                    Cardinality({j \in 1..Len(community_list[i]) :
                                    community_list[i][j] = e}) <= 1
              /\ \E j \in 1..Len(community_list[community_assignment[e] + 1]) :
                    community_list[community_assignment[e] + 1][j] = e
        /\ pc = "stats" =>
              \A e \in SnapshotNames :
                  e \in DOMAIN louvain /\ louvain[e] = community_assignment[e]

\* A completed computation over an isolated entity and a connected pair.
AssignmentTotalWitness ==
    /\ pc = "stats"
    /\ Cardinality(entities) = 3
    /\ \E e \in entities : \A n \in Names : ~Adjacent(e, n)
    /\ \E a, b \in entities : a # b /\ Adjacent(a, b)

\* C2: two entities get the same community id exactly when a path of
\* relationship edges, direction ignored, joins them; an entity with no
\* connection is alone in its community.
CommunitiesAreComponents ==
    Computed =>
        /\ \A a, b \in entities :
              (community_assignment[a] = community_assignment[b]) <=> Joined(a, b)
        /\ \A e \in entities :
              (\A n \in Names \ {e} : ~Adjacent(e, n)) =>
                  MembersOf(community_assignment, community_assignment[e]) = {e}

\* A path of two edges pointing in opposite directions joins three entities.
CommunitiesAreComponentsWitness ==
    /\ pc = "stats"
    /\ \E a, b, c \in entities :
          /\ a # b /\ b # c /\ a # c
          /\ rels[<<a, b>>] > 0 /\ rels[<<c, b>>] > 0
          /\ rels[<<b, a>>] = 0 /\ rels[<<b, c>>] = 0 /\ ~Adjacent(a, c)
          /\ community_assignment[a] = community_assignment[c]

\* C3: the ids are exactly 0..k-1 for k communities, and a smaller id never
\* names a smaller community.
IdsDenseAndBySize ==
    Computed =>
        LET f == community_assignment
            k == Cardinality(PartitionOf(f))
        IN /\ {f[e] : e \in DOMAIN f} = 0..(k - 1)
           /\ \A i, j \in 0..(k - 1) :
                 i < j => Cardinality(MembersOf(f, i)) >= Cardinality(MembersOf(f, j))

\* Communities of different sizes: the larger has id 0, the smaller id 1.
IdsDenseAndBySizeWitness ==
    /\ pc = "stats"
    /\ Cardinality(MembersOf(community_assignment, 0)) = 2
    /\ Cardinality(MembersOf(community_assignment, 1)) = 1

\* C4: a run on the graph of the last completed run (whose ids the store still
\* holds in louvain) computes the same partition, and an entity's id differs
\* from the earlier one only when another community has the size of its own.
RerunSamePartition ==
    (pc = "write" /\ lastRun = "same") =>
        LET old == [e \in entities |-> louvain[e]]
            new == community_assignment
        IN /\ PartitionOf(new) = PartitionOf(old)
           /\ \A e \in entities :
                 new[e] # old[e] =>
                     \E c \in PartitionOf(new) :
                         /\ e \notin c
                         /\ Cardinality(c) = Cardinality(MembersOf(new, new[e]))

\* A second run on the unchanged graph that numbers a community differently.
RerunSamePartitionWitness ==
    /\ pc = "write"
    /\ lastRun = "same"
    /\ Cardinality(entities) = 3
    /\ \E e \in entities : community_assignment[e] # louvain[e]
    /\ \E e \in entities : community_assignment[e] = louvain[e]

\* C5: with no driver passed and the store unavailable, no call of
\* calculate_communities gets past its check: it raises with no query executed,
\* nothing computed and nothing written.
StoreUnavailable == ~UTILS_AVAILABLE \/ neo4j_driver = "None"

RaisesBeforeAnyQuery ==
    StoreUnavailable =>
        /\ pc # "idle" => driver = "explicit"
        /\ (call = "calculate_communities" /\ pc = "idle") =>
              /\ outcome \in {"RuntimeError", "returned"}
              /\ outcome = "RuntimeError" =>
                    /\ queryLog = <<>>
                    /\ entities_data = <<>>
                    /\ community_assignment = EmptyMap
                    /\ result = NoResult

\* The call raised on a store that holds entities without a community id.
RaisesBeforeAnyQueryWitness ==
    /\ StoreUnavailable
    /\ call = "calculate_communities"
    /\ outcome = "RuntimeError"
    /\ entities # {}
    /\ \E e \in entities : e \notin DOMAIN louvain
(***************************************************************************)
(* Properties of parse_extraction_output, checked under SpecParse.         *)
(***************************************************************************)
Parsed == ppc = "parsed" /\ parsed.outcome = "returned"

\* The parser split the output on the delimiters it was written with.
ParsedWithFormat ==
    /\ Parsed
    /\ parsed.record_delimiter = format.record
    /\ parsed.tuple_delimiter = format.tuple

\* A written record has four fields and the first is the word entity; five
\* and relationship.
IsEntityRecord(r) == r.word = EntityWord /\ Len(r.fields) + 1 = 4
IsRelationshipRecord(r) == r.word = RelationshipWord /\ Len(r.fields) + 1 = 5

\* What float() and is_integer() of the interpreter give for the strength texts.
StrengthTable ==
    {<<<<"7">>, IntValue(7)>>,
     <<<<"2", ".", "5">>, FloatValue(25, 1)>>,
     <<<<"h", "i", "g", "h">>, StrValue(<<"h", "i", "g", "h">>)>>,
     <<<<"2", ".", "0">>, IntValue(2)>>,
     <<<<"-", "3">>, IntValue(-3)>>,
     <<<<"1", "e", "1">>, IntValue(10)>>,
     <<<<".", "5">>, FloatValue(5, 1)>>,
     <<<<"1", ".">>, IntValue(1)>>,
     <<<<"i", "n", "f">>, SpecialValue(<<"i", "n", "f">>)>>,
     <<<<"n", "a", "n">>, SpecialValue(<<"n", "a", "n">>)>>,
     <<<<>>, StrValue(<<>>)>>,
     <<<<"2", ",", "5">>, StrValue(<<"2", ",", "5">>)>>,
     <<<<"+", "4">>, IntValue(4)>>,
     <<<<"-", "0", ".", "0">>, IntValue(0)>>,
     <<<<"0", "x", "1", "0">>, StrValue(<<"0", "x", "1", "0">>)>>,
     <<<<"1", "e", "-", "1">>, FloatValue(1, 1)>>,
     <<<<"-", "I", "n", "f", "i", "n", "i", "t", "y">>, SpecialValue(<<"-", "i", "n", "f">>)>>}

StrengthOf(t) == (CHOOSE p \in StrengthTable : p[1] = t)[2]

EntityOf(r) ==
    [record_type |-> "entity",
     entity_name |-> r.fields[1].text,
     entity_type |-> r.fields[2].text,
     entity_description |-> r.fields[3].text]

RelationshipOf(r) ==
    [record_type |-> "relationship",
     source_entity |-> r.fields[1].text,
     target_entity |-> r.fields[2].text,
     relationship_description |-> r.fields[3].text,
     relationship_strength |-> StrengthOf(r.fields[4].text)]

RECURSIVE EntitiesWritten(_)
EntitiesWritten(records) ==
    IF records = <<>> THEN <<>>
    ELSE (IF IsEntityRecord(Head(records)) THEN <<EntityOf(Head(records))>> ELSE <<>>)
         \o EntitiesWritten(Tail(records))

RECURSIVE RelationshipsWritten(_)
RelationshipsWritten(records) ==
    IF records = <<>> THEN <<>>
    ELSE (IF IsRelationshipRecord(Head(records)) THEN <<RelationshipOf(Head(records))>> ELSE <<>>)
         \o RelationshipsWritten(Tail(records))

Endpoints(rel) == <<rel.source_entity, rel.target_entity, rel.relationship_description>>

EndpointsOf(relationships) == [i \in 1..Len(relationships) |-> Endpoints(relationships[i])]

EntityNames(nodes) == [i \in 1..Len(nodes) |-> nodes[i].entity_name]

\* C6: when the output is split on the delimiters it was written with, the
\* entities returned are, in order, the records of four fields whose first
\* field is entity in any case and quoting, the relationships returned are, in
\* order, the records of five fields whose first field is relationship, and
\* nothing else is returned.
ReturnsExactlyTheAcceptedRecords ==
    ParsedWithFormat =>
        /\ parsed.nodes = EntitiesWritten(llm_records)
        /\ EndpointsOf(parsed.relationships) = EndpointsOf(RelationshipsWritten(llm_records))

ExampleText ==
    <<"(", "\"", "e", "n", "t", "i", "t", "y", "\"", "|", "A", "|", "T", "Y", "P", "E", "|", "d", "e", "s", "c", ")",
     "#",
     "(", "\"", "e", "n", "t", "i", "t", "y", "\"", "|", "B", "|", "T", "Y", "P", "E", ")",
     "#",
     "(", "\"", "e", "n", "t", "i", "t", "y", "\"", "|", "C", "|", "T", "Y", "P", "E", "|", "d", "e", "s", "c", "2", ")">>

\* C7 as stated: the example parsed with record delimiter '#' given and the
\* tuple delimiter left to auto-detection yields exactly the entities A and C.
ExampleWithTupleDelimiterDetected ==
    (/\ Parsed
     /\ output_str = ExampleText
     /\ record_arg = Arg(<<"#">>)
     /\ tuple_arg = NoArg)
    => /\ EntityNames(parsed.nodes) = <<NameA, NameC>>
       /\ parsed.relationships = <<>>

\* C7: the example parsed with record delimiter '#' and tuple delimiter '|'
\* both given yields exactly the entities A and C, and no relationship.
ExampleWithBothDelimitersGiven ==
    (/\ Parsed
     /\ output_str = ExampleText
     /\ record_arg = Arg(<<"#">>)
     /\ tuple_arg = Arg(<<"|">>))
    => /\ EntityNames(parsed.nodes) = <<NameA, NameC>>
       /\ parsed.relationships = <<>>

ExampleWithBothDelimitersGivenWitness ==
    /\ Parsed
    /\ output_str = ExampleText
    /\ record_arg = Arg(<<"#">>)
    /\ tuple_arg = Arg(<<"|">>)
    /\ Len(parsed.nodes) = 2
    /\ parsed.nodes[2].entity_description = Desc2Text

\* A tuple of the prompt's format: the word in double quotes, the record in
\* parentheses, fields without surrounding blanks, three fields after entity,
\* or four after relationship with a number as the strength.
WellFormed(r) ==
    /\ r.style = "dq"
    /\ r.wrap
    /\ \A i \in 1..Len(r.fields) : ~r.fields[i].pad
    /\ \/ IsEntityRecord(r)
       \/ IsRelationshipRecord(r) /\ StrengthOf(r.fields[4].text).kind # "str"

\* C8: a list of well-formed tuples, serialized with a record delimiter and a
\* tuple delimiter and parsed with those two delimiters passed, comes back as
\* the same entities and the same relationships, each in the same order.
RoundTripOfWellFormed ==
    (/\ Parsed
     /\ record_arg = Arg(format.record)
     /\ tuple_arg = Arg(format.tuple)
     /\ \A i \in 1..Len(llm_records) : WellFormed(llm_records[i]))
    => /\ parsed.nodes = EntitiesWritten(llm_records)
       /\ parsed.relationships = RelationshipsWritten(llm_records)

\* sub occurs in s.
Occurs(sub, s) ==
    \E i \in 1..(Len(s) - Len(sub) + 1) : \A k \in 1..Len(sub) : s[i + k - 1] = sub[k]

\* C9: a delimiter passed is used as given; with none passed the record
\* delimiter is the placeholder if the text (the completion marker removed)
\* contains it, else the pipe if the text contains one, else newline, and the
\* tuple delimiter is its placeholder if present, else the semicolon if
\* present, else tab.
DelimiterDetectionOrder ==
    ppc = "parsed" =>
        LET text == CleanOutput(output_str)
        IN /\ record_arg.given => parsed.record_delimiter = record_arg.value
           /\ tuple_arg.given => parsed.tuple_delimiter = tuple_arg.value
           /\ ~record_arg.given =>
                 /\ Occurs(RecordPlaceholder, text) => parsed.record_delimiter = RecordPlaceholder
                 /\ ~Occurs(RecordPlaceholder, text) /\ Occurs(<<"|">>, text)
                       => parsed.record_delimiter = <<"|">>
                 /\ ~Occurs(RecordPlaceholder, text) /\ ~Occurs(<<"|">>, text)
                       => parsed.record_delimiter = <<"\n">>
           /\ ~tuple_arg.given =>
                 /\ Occurs(TuplePlaceholder, text) => parsed.tuple_delimiter = TuplePlaceholder
                 /\ ~Occurs(TuplePlaceholder, text) /\ Occurs(<<";">>, text)
                       => parsed.tuple_delimiter = <<";">>
                 /\ ~Occurs(TuplePlaceholder, text) /\ ~Occurs(<<";">>, text)
                       => parsed.tuple_delimiter = <<"\t">>

\* No delimiter passed, a text holding the record placeholder and pipes.
DelimiterDetectionOrderWitness ==
    /\ ppc = "parsed"
    /\ ~record_arg.given
    /\ ~tuple_arg.given
    /\ Occurs(RecordPlaceholder, output_str)
    /\ Occurs(<<"|">>, output_str)
    /\ parsed.record_delimiter = RecordPlaceholder
    /\ parsed.tuple_delimiter = <<"\t">>

\* The field-count check sees one field fewer: the last field is empty and the
\* tuple delimiter before it is blank, so that the strip of the record,
\* tools.py:233/243, removes it (C6).
LastFieldStripped(r, fmt) ==
    /\ r.fields # <<>>
    /\ r.fields[Len(r.fields)].text = <<>>
    /\ \A i \in 1..Len(fmt.tuple) : fmt.tuple[i] \in Whitespace

RECURSIVE Without(_, _)
Without(records, fmt) ==
    IF records = <<>> THEN <<>>
    ELSE (IF LastFieldStripped(Head(records), fmt) THEN <<>> ELSE <<Head(records)>>)
         \o Without(Tail(records), fmt)

HasKey(v, k) == v.kind = "dict" /\ \E i \in 1..Len(v.items) : v.items[i].key = k

Get(v, k) ==
    v.items[CHOOSE i \in 1..Len(v.items) :
                v.items[i].key = k /\ \A j \in (i + 1)..Len(v.items) : v.items[j].key # k].value

\* A dict carrying title, summary, rating, rating_explanation and a findings list.
ReportShape(v) ==
    /\ v.kind = "dict"
    /\ \A k \in {TitleKey, SummaryKey, RatingKey, RatingExplanationKey, FindingsKey} :
          HasKey(v, k)
    /\ Get(v, FindingsKey).kind = "list"

\* No code fence, no '{' and no '['.
NoJsonMarkers(t) == ~Contains(t, Fence) /\ ~Has(t, "{") /\ ~Has(t, "[")

\* chat_bedrock was invoked and answered.
Replied == response.called /\ ~response.raised

\* C12: extract_json returns, for every text, a dict carrying title, summary,
\* rating, rating_explanation and a findings list. The code returns whatever
\* json.loads gives at the first stage that parses.
ExtractJsonReturnsReportShape ==
    llm_call = "extract_json" => llm_outcome = "returned" /\ ReportShape(json_value)

\* C13: generate_community_report_with_llm returns {} exactly when the
\* invocation of the language model failed; after a reply it returns what
\* extract_json makes of the reply, the parsed report or the fallback dict. The
\* code hands that value to json.loads once more and returns {} on its error.
EmptyReportOnlyWhenInvocationFailed ==
    (llm_call = "generate_community_report_with_llm" /\ llm_outcome = "returned")
    => /\ json_value = EmptyDict <=> ~Replied
       /\ Replied => json_value = extract_json(llm_text).value

\* C14: a text with no code fence, no '{' and no '[' gives the fallback dict.
\* The code returns the value of a text that is a JSON scalar.
NoMarkersGivesFallback ==
    (llm_call = "extract_json" /\ NoJsonMarkers(llm_text)) => json_value = FallbackReport

\* C15: with the backend unavailable extract_entities_with_llm ends in an
\* error. The code raises inside its own try block when Strands is missing and
\* returns two empty lists.
UnavailableBackendIsAnError ==
    (llm_call = "extract_entities_with_llm" /\ STRANDS_AVAILABLE # "True")
    => llm_outcome # "returned"

\* C16: with the store available process_book_chunks goes through every chunk
\* of the selected books and returns. The code raises NameError at the loop
\* header, before the first chunk.
BatchRunsToItsEnd ==
    (llm_call = "process_book_chunks" /\ ~DriverUnavailable("None"))
    => llm_outcome = "returned"

(***************************************************************************)
(* Properties of the imports, checked under SpecImport.                    *)
(***************************************************************************)
\* The descriptions of the rows of the name, in the order they were imported.
RECURSIVE DescriptionsOf(_, _)
DescriptionsOf(rows, name) ==
    IF rows = <<>> THEN <<>>
    ELSE (IF Head(rows).name = name THEN <<Head(rows).description>> ELSE <<>>)
         \o DescriptionsOf(Tail(rows), name)

\* C17: after any sequence of chunk imports the store holds one entity for
\* every name imported and no second one, and the description list of an
\* entity is the descriptions of the mentions of its name in import order.
OneEntityPerNameWithEveryDescription ==
    /\ \A i, j \in 1..Len(entity_nodes) :
          entity_nodes[i].name = entity_nodes[j].name => i = j
    /\ \A k \in 1..Len(mentions) : NodeIndex(entity_nodes, mentions[k].name) # {}
    /\ \A i \in 1..Len(entity_nodes) :
          entity_nodes[i].description = DescriptionsOf(mentions, entity_nodes[i].name)

\* A name mentioned twice in one chunk and once in another: one entity with
\* the three descriptions.
OneEntityPerNameWithEveryDescriptionWitness ==
    /\ imports = 2
    /\ Len(mentions) = 3
    /\ \E i \in 1..Len(entity_nodes) :
          /\ entity_nodes[i].name = NameAl
          /\ Len(entity_nodes[i].description) = 3
          /\ entity_nodes[i].description[1] # entity_nodes[i].description[2]
    /\ Cardinality(NodeIndex(entity_nodes, NameAl)) = 1

\* C18: names that differ only in letter case are one entity. The parser
\* keeps a name as written and MERGE compares names as written.
CaseVariantsAreOneEntity ==
    \A i, j \in 1..Len(entity_nodes) :
        Upper(entity_nodes[i].name) = Upper(entity_nodes[j].name) => i = j

\* C19: the RELATIONSHIP edges are as many as the relationship rows imported,
\* and the two ends of every edge are entities of the store.
EveryRelationshipRowIsAnEdge ==
    /\ Len(edges) = rel_rows
    /\ \A k \in 1..Len(edges) :
          /\ edges[k].s \in 1..Len(entity_nodes)
          /\ edges[k].t \in 1..Len(entity_nodes)

\* Three rows between the same two names, two of them in one chunk, one end
\* never mentioned as an entity: three edges.
EveryRelationshipRowIsAnEdgeWitness ==
    /\ rel_rows = 3
    /\ Len(edges) = 3
    /\ \A k \in 1..Len(edges) :
          /\ entity_nodes[edges[k].s].name = NameAl
          /\ entity_nodes[edges[k].t].name = NameB
    /\ \E i \in 1..Len(entity_nodes) : ~entity_nodes[i].described

\* C20: no two entities are joined by more than one SUMMARIZED_RELATIONSHIP
\* edge, and when import_rels_summary has returned every two entities joined
\* by a RELATIONSHIP edge, whichever way it points, are joined by one.
OneSummarizedEdgePerRelatedPair ==
    /\ \A k, l \in 1..Len(summarized) :
          l \in SummarizedBetween(summarized, summarized[k].s, summarized[k].t) => k = l
    /\ (import_call = "import_rels_summary" /\ import_outcome = "returned")
       => \A k \in 1..Len(edges) :
             Cardinality(SummarizedBetween(summarized, edges[k].s, edges[k].t)) = 1

\* The second call, on a pair that had its summarized edge already and has
\* three edges, not all the same way.
OneSummarizedEdgePerRelatedPairWitness ==
    /\ import_call = "import_rels_summary"
    /\ import_outcome = "returned"
    /\ summary_calls = 2
    /\ summarized_before = 1
    /\ Len(summarized) = 1
    /\ Len(edges) = 3
    /\ \E k, l \in 1..Len(edges) :
          /\ edges[k].s = edges[l].t
          /\ edges[k].t = edges[l].s
          /\ edges[k].s # edges[k].t

(***************************************************************************)
(* Properties of get_community_info, checked under SpecInfo.               *)
(***************************************************************************)
InfoReturned == call = "get_community_info" /\ outcome = "returned"

\* C21: the list get_community_info returns has one record for every
\* community id of the store, also for a community of one entity, and the
\* record holds the members of the community and the relationships between
\* them.
InfoForEveryCommunity ==
    InfoReturned =>
        /\ \A id \in LouvainIds(louvain) :
              Cardinality({i \in 1..Len(communities) : communities[i].communityId = id}) = 1
        /\ \A i \in 1..Len(communities) :
              LET members == MembersOf(louvain, communities[i].communityId)
              IN /\ {communities[i].nodes[k].id : k \in 1..Len(communities[i].nodes)} = members
                 /\ \A a, b \in members :
                       Adjacent(a, b) =>
                          \E k \in 1..Len(communities[i].rels) :
                              /\ communities[i].rels[k].start = a
                              /\ communities[i].rels[k].end = b

(***************************************************************************)
(* Properties of get_summarize_community_prompt, checked under SpecPrompt. *)
(***************************************************************************)
Prompted == prompt_call = "get_summarize_community_prompt"

Fields(line) == Split(line, <<",">>)

\* C22: the tables hold the first ten entities and the first ten
\* relationships, in the order given, numbered from 1 row by row; what comes
\* after the tenth is nowhere in the text.
FirstTenInOrderNumberedFromOne ==
    Prompted =>
        /\ Len(node_info) = IF Len(prompt_nodes) < 10 THEN Len(prompt_nodes) ELSE 10
        /\ Len(rel_info) =
              IF Len(prompt_relationships) < 10 THEN Len(prompt_relationships) ELSE 10
        /\ \A k \in 1..Len(node_info) :
              /\ Fields(node_info[k])[1] = IntStr(k)
              /\ "name" \in DOMAIN prompt_nodes[k]
                    => Fields(node_info[k])[2] = prompt_nodes[k].name.text
              /\ Contains(input_text, <<"\n">> \o node_info[k] \o <<"\n">>)
        /\ \A k \in 1..Len(rel_info) :
              /\ Fields(rel_info[k])[1] = IntStr(k)
              /\ "source" \in DOMAIN prompt_relationships[k]
                    => Fields(rel_info[k])[2] = prompt_relationships[k].source.text
              /\ "target" \in DOMAIN prompt_relationships[k]
                    => Fields(rel_info[k])[3] = prompt_relationships[k].target.text
              /\ Contains(input_text, <<"\n">> \o rel_info[k] \o <<"\n">>)
        /\ \A k \in 11..Len(prompt_nodes) :
              \A key \in DOMAIN prompt_nodes[k] \ {"type"} :
                  prompt_nodes[k][key].text # <<>>
                      => ~Contains(input_text, prompt_nodes[k][key].text)
        /\ \A k \in 11..Len(prompt_relationships) :
              \A key \in DOMAIN prompt_relationships[k] :
                  ~Contains(input_text, prompt_relationships[k][key].text)

\* Eleven entities and eleven relationships were given: ten rows each.
FirstTenInOrderNumberedFromOneWitness ==
    /\ Prompted
    /\ Len(prompt_nodes) = 11
    /\ Len(prompt_relationships) = 11
    /\ Len(node_info) = 10
    /\ Len(rel_info) = 10
    /\ DOMAIN prompt_nodes[11] = {"name", "type", "description"}

\* C23: a failed map call does not abort the batch and contributes no point
\* to the input of the reduce call, which is made over every report's
\* surviving points; a failed reduce call fails the whole question, and the
\* failure reaches the caller; a reduce call that returns is the answer.
MapFailureIsolatedReduceFailureFatal ==
    /\ answer_pc \in {"reduce", "done"} =>
          /\ Len(map_results) = Len(reports)
          /\ \A i \in 1..Len(reports) :
                /\ map_results[i].report = reports[i]
                /\ map_results[i].status = "failed" =>
                      \A k \in 1..Len(report_data) : report_data[k].report # reports[i]
                /\ map_results[i].status = "returned" =>
                      \A k \in 1..Len(map_results[i].points) :
                         map_results[i].points[k].score > ScoreThreshold =>
                            \E j \in 1..Len(report_data) :
                               report_data[j] = map_results[i].points[k]
          /\ \A k \in 1..(Len(report_data) - 1) :
                report_data[k].score >= report_data[k + 1].score
    /\ answer_pc = "done" =>
          /\ reduce_reply.status = "failed" =>
                answer.status = "raised" /\ answer.cause = "reduce"
          /\ reduce_reply.status = "returned" =>
                answer.status = "answered" /\ answer.text = reduce_reply.text
    /\ answer_pc # "done" => answer = NoAnswer

\* A question over three reports: the map call of the first one failed, the
\* others gave points, and the reduce call failed.
MapFailureIsolatedReduceFailureFatalWitness ==
    /\ answer_pc = "done"
    /\ Len(reports) = MaxReports
    /\ map_results[1].status = "failed"
    /\ \E i \in 2..Len(reports) : map_results[i].status = "returned"
    /\ report_data # <<>>
    /\ reduce_reply.status = "failed"
    /\ answer.status = "raised"

ClearReturned == clear_call.outcome = "returned"

DeletedByLastClear ==
    IF clear_call.function = "clear_all_graph_data"
    THEN clear_stats.deleted_relationships + clear_stats.deleted_nodes
    ELSE clear_stats.total_deleted_nodes

\* C24: a clear that reaches a store without nodes and relationships
\* returns, reports no deletion and leaves the store without them; the same
\* clear made twice in a row leaves the store, after the second call, as the
\* first call left it, and the second call reports no deletion.
ClearsIdempotentAndSafeOnEmpty ==
    /\ clear_call.function # "none" /\ ~DriverUnavailable(clear_call.driver) => ClearReturned
    /\ ClearReturned /\ graph_before.nodes = {} /\ graph_before.rels = {} =>
          /\ DeletedByLastClear = 0
          /\ graph.nodes = {} /\ graph.rels = {}
    /\ ClearReturned /\ clear_prev.call = clear_call =>
          /\ graph = graph_before
          /\ DeletedByLastClear = 0

\* clear_all_graph_data made twice on a store that held nodes, relationships,
\* an index and a constraint: the second call found the store empty.
ClearsIdempotentAndSafeOnEmptyWitness ==
    /\ ClearReturned
    /\ clear_prev.call = clear_call
    /\ clear_call.function = "clear_all_graph_data"
    /\ clear_prev.stats.deleted_nodes = 3
    /\ clear_prev.stats.deleted_relationships = 9
    /\ graph_before = EmptyGraph
    /\ graph = EmptyGraph
    /\ clear_stats.deleted_nodes = 0
    /\ clear_stats.deleted_relationships = 0

\* The ids calculate_communities gives to the rows when the set all_entities
\* is iterated in the given order (tools.py:357-390).
AssignmentOf(rows, order) ==
    AssignIds(SortedBySizeDesc(CommunityValues(
                  GroupCommunities(UnionAll(EmptyMap, rows), order, <<>>))),
              1, EmptyMap)

\* C25: the ids are fixed by the query rows and their order, also among
\* communities of the same size: whatever order the interpreter iterates
\* the set all_entities in, the rows of the run get the ids this run gave.
IdsFixedByInputOrder ==
    pc = "write" =>
       \A order \in SeqsOf(all_entities) :
          AssignmentOf(entities_data, order) = community_assignment

\* C26: a run reads the store once, then writes once, and reads nothing
\* after the write; the batch has a row for every entity of the snapshot,
\* and after the write every entity of the snapshot holds the id this run
\* computed for it, none an id of an earlier run.
OneReadThenOneBatchWrite ==
    /\ pc = "fetch" => queryLog = <<>>
    /\ pc \in {"components", "write"} => queryLog = <<"read">>
    /\ pc = "write" => DOMAIN community_assignment = SnapshotNames
    /\ pc = "stats" =>
          /\ queryLog = <<"read", "write">>
          /\ SnapshotNames = entities
          /\ DOMAIN community_assignment = SnapshotNames
          /\ \A e \in SnapshotNames :
                e \in DOMAIN louvain /\ louvain[e] = community_assignment[e]
    /\ (call = "calculate_communities" /\ pc = "idle" /\ outcome = "returned") =>
          /\ queryLog = <<"read", "write">>
          /\ entities \subseteq DOMAIN louvain

\* A run after an earlier run and a change of the graph: its write is done,
\* and the three entities hold the ids 0, 0 and 1 of this run.
OneReadThenOneBatchWriteWitness ==
    /\ pc = "stats"
    /\ lastRun = "changed"
    /\ Cardinality(entities) = 3
    /\ Cardinality(MembersOf(louvain, 0)) = 2
    /\ Cardinality(MembersOf(louvain, 1)) = 1

\* The unordered pairs of distinct entities that a RELATIONSHIP joins.
AdjacentPairs == {p \in SUBSET entities : Cardinality(p) = 2 /\ \A a, b \in p : a # b => Adjacent(a, b)}

NeighborCounts == SumOver([e \in entities |-> Cardinality(Connected(rels, e))], entities)

\* C27: relationshipCount is the sum over the entities of the number of
\* their distinct neighbors, halved and rounded down; with no self-loop in
\* the store it is the number of unordered pairs of adjacent entities.
RelationshipCountHalvesNeighborSum ==
    (call = "calculate_communities" /\ pc = "idle" /\ outcome = "returned") =>
       /\ result.relationshipCount = NeighborCounts \div 2
       /\ (\A e \in entities : rels[<<e, e>>] = 0) =>
             result.relationshipCount = Cardinality(AdjacentPairs)

\* A returned run on a store of three entities where one pair is adjacent,
\* by an edge in each direction: the pair is counted once.
RelationshipCountHalvesNeighborSumWitness ==
    /\ call = "calculate_communities" /\ pc = "idle" /\ outcome = "returned"
    /\ \A e \in entities : rels[<<e, e>>] = 0
    /\ Cardinality(entities) = 3
    /\ Cardinality(AdjacentPairs) = 1
    /\ \E a, b \in entities : a # b /\ rels[<<a, b>>] > 0 /\ rels[<<b, a>>] > 0
    /\ result.relationshipCount = 1

\* What each stage of extract_json loads from the text of the last call, or
\* JsonFail when the stage finds nothing to load or json.loads raises.
DirectStage == JsonLoads(Cleaned(llm_text))

FencedStage ==
    IF FencedBlock(llm_text).found
    THEN JsonLoads(Strip(FencedBlock(llm_text).group)) ELSE JsonFail

BraceStage ==
    IF Has(llm_text, "{") THEN JsonLoads(BalancedSpan(llm_text, "{", "}")) ELSE JsonFail

BracketStage ==
    IF Has(llm_text, "[") THEN JsonLoads(BalancedSpan(llm_text, "[", "]")) ELSE JsonFail

\* C28: extract_json returns what the first of its stages loads, the stages
\* taken in the order direct, fenced block, first {...} span, first [...]
\* span; a later stage gives the value only when every earlier one failed,
\* and the fallback report only when all four failed.
StagesTriedInOrder ==
    llm_call = "extract_json" =>
       json_value = IF DirectStage.ok THEN DirectStage.value
                    ELSE IF FencedStage.ok THEN FencedStage.value
                    ELSE IF BraceStage.ok THEN BraceStage.value
                    ELSE IF BracketStage.ok THEN BracketStage.value
                    ELSE FallbackReport

\* A report inside prose: the direct parse fails, there is no fenced block,
\* the {...} span loads as the report and the [...] span as its findings;
\* the report is returned.
StagesTriedInOrderWitness ==
    /\ llm_call = "extract_json"
    /\ ~DirectStage.ok
    /\ ~FencedStage.ok
    /\ BraceStage.ok
    /\ BracketStage.ok
    /\ BracketStage.value # BraceStage.value
    /\ json_value = BraceStage.value

\* A dict that lacks the key, or holds None or the empty str under it.
Lacks(d, key) == key \notin DOMAIN d \/ d[key].kind = "None" \/ d[key].text = <<>>

\* C29: in the tables a missing field shows as its default: an entity
\* without the key name as Unknown_<index>, an entity whose description is
\* absent, None or empty with the placeholder text, a relationship without
\* source or target as Unknown, a relationship without description with
\* the description made of its two endpoints.
MissingFieldsShowDefaults ==
    Prompted =>
        /\ \A k \in 1..Len(node_info) :
              /\ "name" \notin DOMAIN prompt_nodes[k]
                    => Fields(node_info[k])[2] = UnknownPrefix \o IntStr(k - 1)
              /\ Lacks(prompt_nodes[k], "description")
                    => Fields(node_info[k])[3] = NoDescriptionText
        /\ \A k \in 1..Len(rel_info) :
              /\ "source" \notin DOMAIN prompt_relationships[k]
                    => Fields(rel_info[k])[2] = UnknownText
              /\ "target" \notin DOMAIN prompt_relationships[k]
                    => Fields(rel_info[k])[3] = UnknownText
              /\ "description" \notin DOMAIN prompt_relationships[k]
                    => Fields(rel_info[k])[4] =
                          Fields(rel_info[k])[2] \o IsRelatedTo \o Fields(rel_info[k])[3]

\* C30: in the prompt made of a community record of get_community_info
\* every row of the entity table shows the name of the member the row is
\* for, and every row of the relationship table the names of the two
\* entities its relationship joins.
RecordRowsShowActualNames ==
    (Prompted /\ call = "get_community_info") =>
        /\ \A k \in 1..Len(node_info) :
              /\ Fields(node_info[k])[2] = prompt_nodes[k].id.text
              /\ \E e \in entities : Fields(node_info[k])[2] = <<e>>
        /\ \A k \in 1..Len(rel_info) :
              prompt_relationships[k].start.kind = "str" =>
                 /\ Fields(rel_info[k])[2] = prompt_relationships[k].start.text
                 /\ Fields(rel_info[k])[3] = prompt_relationships[k].end.text

====
